---- MODULE Spec2Model ----
(***************************************************************************)
(* Appliance lifecycle core of utils/appliance/__init__.py: the appliance  *)
(* stack and the scoped activation of appliances, the readiness           *)
(* predicates, the database enable operations and the cached, explicitly  *)
(* invalidated properties of an IPAppliance.                              *)
(***************************************************************************)
EXTENDS Integers, Sequences, FiniteSets, TLC

(* ------------------------------------------------------------------ *)
(* Bounds of the model                                                 *)
(* ------------------------------------------------------------------ *)
\* appliance objects constructed by the callers (object identities 1..NumApps)
NumApps == 2
\* appliance objects get_or_create_current_appliance may construct
MaxCreated == 1
\* deepest appliance stack / deepest nesting of open scopes explored
MaxDepth == 3
\* addresses, provider keys and VM names of the appliances compared
MaxNames == 2
\* deepest stack of a thread explored when two threads use the stack
MaxThreadDepth == 2

None == 0
Apps == 1..NumApps
CreatedApps == (NumApps + 1)..(NumApps + MaxCreated)
AllApps == Apps \cup CreatedApps

\* IPAppliance.address of an object: objects 1 and 2 are two objects for the
\* same address, a created appliance has the address of conf.env['base_url']
Address(a) == IF a \in CreatedApps THEN 0 ELSE (a + 1) \div 2

Last(s) == s[Len(s)]
Front(s) == SubSeq(s, 1, Len(s) - 1)

\* the elements of a sequence
Range(f) == {f[i] : i \in DOMAIN f}

VARIABLES
    stack,          \* the ApplianceStack of this thread, bottom first
    scopes,         \* the appliances of the open "with appliance:" blocks, outermost first
    outer,          \* the stack as it was before the outermost open scope was entered
    browser_steal,  \* IPAppliance.browser_steal of every object
    browser,        \* the appliance the browser session was last started for
    base_url,       \* conf.env['base_url'] is set
    created,        \* appliances constructed by get_or_create_current_appliance
    cfg,            \* the running IPAppliance.configure call, pc = "idle" if none
    s_last          \* the last stack operation and its outcome

\* the storage of the one process-wide ApplianceStack object for a second thread
VARIABLES
    peer_stack,     \* the list the LocalStack holds for the second thread, bottom first
    t_log           \* per thread: the objects it pushed and has not popped yet

thread_vars == <<peer_stack, t_log>>

stack_vars == <<stack, scopes, outer, browser_steal, browser, base_url, created, cfg, s_last,
                thread_vars>>

\* one IPAppliance object and the remote machine behind it
VARIABLES
    cache,          \* the cached properties held in self.__dict__, name -> value
    db_host,        \* IPAppliance.db_host, NoHost for None
    ssh_up,         \* remote: the SSH port answers (is_ssh_running)
    yaml,           \* remote: the server's configuration (Settings)
    db_made,        \* number of db.Db handles constructed so far
    stale,          \* oids of the handles that were cached when an enable_*_db was called
    a_last,         \* the last appliance operation and its outcome
    db_ssh_client_attr, \* self._db_ssh_client: the host it connects to, NoHost for None
    remote_db,      \* remote: the database server is online, has vmdb_production, has tables
    r_pc,           \* the check the running read of is_db_ready is at, "idle" if none
    r_evals,        \* the checks the last read of is_db_ready evaluated, in order
    r_ret,          \* what the last read of is_db_ready gave
    vmdb,           \* remote: the regions, servers and zones in the database
    w_last,         \* the last call of is_web_ui_running and its outcome
    active_roles,   \* remote: the roles assigned to this server with the active flag
    role_wait,      \* the wait_for of the server_roles setter: the wanted mapping, polls made
    ro_last         \* the last step of the server_roles setter and its outcome

role_vars == <<active_roles, role_wait, ro_last>>

app_vars == <<cache, db_host, ssh_up, yaml, db_made, stale, a_last,
              db_ssh_client_attr, remote_db, r_pc, r_evals, r_ret, vmdb, w_last,
              role_vars>>

VARIABLES
    c_run,          \* the run of configure in progress or last ended: its arguments and log
    q_last          \* the last service command, probe, wait or identity read and its outcome

run_vars == <<c_run, q_last>>

(* ------------------------------------------------------------------ *)
(* ApplianceStack                                                      *)
(* ------------------------------------------------------------------ *)
top_bottom(s) == IF Len(s) = 0 THEN None ELSE Head(s)

\* LocalStack.top: the last element, None on an empty stack
top(s) == IF Len(s) = 0 THEN None ELSE Last(s)

\* utils.browser.start(): the session is (re)started against the current top
browser_start(s) == top(s)

\* ApplianceStack.push: the list after the push
push(s, obj) == Append(s, obj)

pop_fifo(s) ==
    IF Len(s) = 0
    THEN [ret |-> None, stack |-> s, err |-> "AttributeError"]
    ELSE [ret |-> Head(s), stack |-> Tail(s), err |-> "none"]

\* ApplianceStack.pop: LocalStack.pop returns None on an empty stack and
\* was_before.address then raises AttributeError; otherwise the last element
\* is removed and returned
pop(s) ==
    IF Len(s) = 0
    THEN [ret |-> None, stack |-> s, err |-> "AttributeError"]
    ELSE [ret |-> Last(s), stack |-> Front(s), err |-> "none"]

\* the browser after ApplianceStack.push(obj) gave stack s
browser_after_push(s, obj, steal, b) == IF steal[obj] THEN browser_start(s) ELSE b

browser_kept(r, steal, b) == b

\* the browser after ApplianceStack.pop returned r
browser_after_pop(r, steal, b) ==
    IF r.err = "none" /\ steal[r.ret] THEN browser_start(r.stack) ELSE b

is_self_eq(popped, self) == Address(popped) = Address(self)

\* "stack.pop() is self": object identity
is_self(popped, self) == popped = self

exit_result_nofinally(s, self, bodyRaised) ==
    IF bodyRaised
    THEN [ret |-> None, stack |-> s, err |-> "BodyError"]
    ELSE LET r == pop(s) IN
         [ret |-> r.ret, stack |-> r.stack,
          err |-> IF r.err # "none" THEN r.err
                  ELSE IF ~is_self(r.ret, self) THEN "AssertionError"
                  ELSE "none"]

\* IPAppliance.__exit__: the finally clause pops whatever the body and the
\* diagnostics capture did, and asserts that the popped object is self. An
\* exception raised in the finally clause replaces the one of the body; with
\* none raised there the body's exception keeps propagating (__exit__ returns
\* None).
exit_result(s, self, bodyRaised) ==
    LET r == pop(s) IN
    [ret |-> r.ret, stack |-> r.stack,
     err |-> IF r.err # "none" THEN r.err
             ELSE IF ~is_self(r.ret, self) THEN "AssertionError"
             ELSE IF bodyRaised THEN "BodyError"
             ELSE "none"]

IdleCfg == [pc |-> "idle", fix_ntp_clock |-> FALSE, loosen_pgssl |-> FALSE,
            v58 |-> FALSE, restart_evm |-> FALSE]

\* s_last of a stack operation; before: the stack a pop or a
\* get_or_create_current_appliance found
StackOp(op, app, ret, err, before, logged) ==
    [op |-> op, app |-> app, ret |-> ret, err |-> err, before |-> before,
     logged |-> logged]

\* no thread has pushed anything
ThreadIdle ==
    /\ peer_stack = <<>>
    /\ t_log = [main |-> <<>>, peer |-> <<>>]

\* the stack is not used
StackIdle ==
    /\ ThreadIdle
    /\ stack = <<>>
    /\ scopes = <<>>
    /\ outer = <<>>
    /\ browser_steal = [a \in AllApps |-> a \in Apps /\ a % 2 = 1]
    /\ browser = None
    /\ base_url = TRUE
    /\ created = 0
    /\ cfg = IdleCfg
    /\ s_last = StackOp("init", None, None, "none", <<>>, FALSE)

StackInit ==
    /\ ThreadIdle
    /\ stack = <<>>
    /\ scopes = <<>>
    /\ outer = <<>>
    /\ browser_steal \in {f \in [AllApps -> BOOLEAN] : \A a \in CreatedApps : ~f[a]}
    /\ browser = None
    /\ base_url \in BOOLEAN
    /\ created = 0
    /\ cfg = IdleCfg
    /\ s_last = StackOp("init", None, None, "none", <<>>, FALSE)

Threads == {"main", "peer"}

local_shared(main_list, peer_list, ident) == main_list

\* the list the LocalStack keeps for the calling thread: the storage is keyed
\* by the identity of the thread
local(main_list, peer_list, ident) == IF ident = "main" THEN main_list ELSE peer_list

log_push(log, ident, obj) == [log EXCEPT ![ident] = Append(@, obj)]

log_pop(log, ident) == [log EXCEPT ![ident] = IF Len(@) = 0 THEN @ ELSE Front(@)]

\* the calling thread's list is replaced by s
ThreadStore(ident, s) ==
    /\ stack' = IF ident = "main" THEN s ELSE stack
    /\ peer_stack' = IF ident = "peer" THEN s ELSE peer_stack

\* stack.push(a) called in the thread ident
ThreadPush(ident, a) ==
    LET s == local(stack, peer_stack, ident) IN
    /\ cfg.pc = "idle"
    /\ Len(s) < MaxThreadDepth
    /\ ThreadStore(ident, push(s, a))
    /\ browser' = browser_after_push(push(s, a), a, browser_steal, browser)
    /\ s_last' = StackOp("push", a, None, "none", <<>>, FALSE)
    /\ t_log' = log_push(t_log, ident, a)
    /\ UNCHANGED <<scopes, browser_steal, base_url, created, cfg>>

\* stack.pop() called in the thread ident
ThreadPop(ident) ==
    LET r == pop(local(stack, peer_stack, ident)) IN
    /\ cfg.pc = "idle"
    /\ ThreadStore(ident, r.stack)
    /\ browser' = browser_after_pop(r, browser_steal, browser)
    /\ s_last' = StackOp("pop", None, r.ret, r.err, local(stack, peer_stack, ident), FALSE)
    /\ t_log' = log_pop(t_log, ident)
    /\ UNCHANGED <<scopes, browser_steal, base_url, created, cfg>>

\* a direct stack.push(a) of a collaborator
Push(a) ==
    /\ cfg.pc = "idle"
    /\ Len(stack) < MaxDepth
    /\ stack' = push(stack, a)
    /\ browser' = browser_after_push(stack', a, browser_steal, browser)
    /\ s_last' = StackOp("push", a, None, "none", <<>>, FALSE)
    /\ UNCHANGED <<scopes, browser_steal, base_url, created, cfg>>

\* a direct stack.pop() of a collaborator
Pop ==
    /\ cfg.pc = "idle"
    /\ LET r == pop(stack) IN
        /\ stack' = r.stack
        /\ browser' = browser_after_pop(r, browser_steal, browser)
        /\ s_last' = StackOp("pop", None, r.ret, r.err, stack, FALSE)
    /\ UNCHANGED <<scopes, browser_steal, base_url, created, cfg>>

\* IPAppliance.__enter__: "with a:" is entered
Enter(a) ==
    /\ cfg.pc = "idle"
    /\ Len(stack) < MaxDepth
    /\ Len(scopes) < MaxDepth
    /\ stack' = push(stack, a)
    /\ browser' = browser_after_push(stack', a, browser_steal, browser)
    /\ scopes' = Append(scopes, a)
    /\ s_last' = StackOp("enter", a, a, "none", <<>>, FALSE)
    /\ UNCHANGED <<browser_steal, base_url, created, cfg>>

capture_unhandled(shotRaises) ==
    [logged |-> FALSE, err |-> IF shotRaises THEN "CaptureError" ELSE "none"]

\* "try: self._screenshot_capture_at_context_leave(...) except Exception:
\* logger.exception(...)": an exception of the capture is logged and dropped
capture(shotRaises) == [logged |-> shotRaises, err |-> "none"]

\* what leaves __exit__: an exception of the finally clause, else one that the
\* try statement did not handle, else the one of the body
leave_err(exit_err, capture_err) ==
    IF exit_err \in {"AttributeError", "AssertionError"} THEN exit_err
    ELSE IF capture_err # "none" THEN capture_err
    ELSE exit_err

\* IPAppliance.__exit__ of the innermost open scope; bodyRaised: an exception
\* propagated out of the body, shotRaises: capturing the diagnostics raised
LeaveScope(op, bodyRaised, shotRaises) ==
    LET self == Last(scopes)
        e == exit_result(stack, self, bodyRaised)
        k == capture(shotRaises)
        r == [ret |-> e.ret, stack |-> e.stack,
              err |-> IF e.stack = stack THEN "AttributeError" ELSE "none"]
    IN
    /\ stack' = e.stack
    /\ browser' = browser_after_pop(r, browser_steal, browser)
    /\ scopes' = Front(scopes)
    /\ s_last' = StackOp(op, self, e.ret, leave_err(e.err, k.err), <<>>, k.logged)

Exit(bodyRaised, shotRaises) ==
    /\ cfg.pc = "idle"
    /\ scopes # <<>>
    /\ LeaveScope("exit", bodyRaised, shotRaises)
    /\ UNCHANGED <<browser_steal, base_url, created, cfg>>

\* get_or_create_current_appliance; openshift_dict: conf.env's openshift
\* entry is a dictionary (or absent). The appliance constructed has the
\* default browser_steal=False
GetOrCreate(openshift_dict) ==
    /\ cfg.pc = "idle"
    /\ IF top(stack) = None
       THEN IF ~base_url
            THEN /\ s_last' = StackOp("get_or_create", None, None, "ValueError", stack, FALSE)
                 /\ UNCHANGED <<stack, browser, created>>
            ELSE IF ~openshift_dict
            THEN /\ s_last' = StackOp("get_or_create", None, None, "TypeError", stack, FALSE)
                 /\ UNCHANGED <<stack, browser, created>>
            ELSE /\ created < MaxCreated
                 /\ LET new == NumApps + created + 1 IN
                     /\ stack' = push(stack, new)
                     /\ browser' = browser_after_push(stack', new, browser_steal, browser)
                     /\ created' = created + 1
                     /\ s_last' = StackOp("get_or_create", new, top(stack'), "none", stack, FALSE)
       ELSE /\ s_last' = StackOp("get_or_create", None, top(stack), "none", stack, FALSE)
            /\ UNCHANGED <<stack, browser, created>>
    /\ UNCHANGED <<scopes, browser_steal, base_url, cfg>>

(* ------------------------------------------------------------------ *)
(* IPAppliance.configure                                               *)
(* ------------------------------------------------------------------ *)
restart_skipped(c) == FALSE

\* restart_evm after the step c.pc was run
restart_after(c) ==
    c.restart_evm \/ c.pc \in {"loosen_pgssl", "configure_vm_console_cert"}

\* the step of configure that follows the step c.pc, "leave" after the last;
\* restart_evm is looked at after the step set it
after_fixups(c) ==
    IF restart_after(c) THEN "restart_evm_service" ELSE "wait_for_web_ui"

after_loosen(c) ==
    IF c.v58 THEN "configure_vm_console_cert" ELSE after_fixups(c)

next_step_evm_first(c) ==
    CASE c.pc = "wait_for_ssh" -> "deploy_merkyl"
      [] c.pc = "deploy_merkyl" ->
            IF c.fix_ntp_clock THEN "fix_ntp_clock" ELSE "wait_for_evm_service"
      [] c.pc = "fix_ntp_clock" -> "wait_for_evm_service"
      [] c.pc = "wait_for_evm_service" -> "setup_database"
      [] c.pc = "setup_database" ->
            IF c.loosen_pgssl THEN "loosen_pgssl" ELSE after_loosen(c)
      [] c.pc = "loosen_pgssl" -> after_loosen(c)
      [] c.pc = "configure_vm_console_cert" -> after_fixups(c)
      [] c.pc = "restart_evm_service" -> "wait_for_web_ui"
      [] c.pc = "wait_for_web_ui" -> "leave"

next_step(c) ==
    CASE c.pc = "wait_for_ssh" -> "deploy_merkyl"
      [] c.pc = "deploy_merkyl" ->
            IF c.fix_ntp_clock THEN "fix_ntp_clock" ELSE "setup_database"
      [] c.pc = "fix_ntp_clock" -> "setup_database"
      [] c.pc = "setup_database" -> "wait_for_evm_service"
      [] c.pc = "wait_for_evm_service" ->
            IF c.loosen_pgssl THEN "loosen_pgssl" ELSE after_loosen(c)
      [] c.pc = "loosen_pgssl" -> after_loosen(c)
      [] c.pc = "configure_vm_console_cert" -> after_fixups(c)
      [] c.pc = "restart_evm_service" -> "wait_for_web_ui"
      [] c.pc = "wait_for_web_ui" -> "leave"

\* configure(...) is called on appliance a: "with self as ipapp:" is entered
ConfigureStart(a, fix, loosen, v58) ==
    /\ cfg.pc = "idle"
    /\ Len(stack) < MaxDepth
    /\ Len(scopes) < MaxDepth
    /\ stack' = push(stack, a)
    /\ browser' = browser_after_push(stack', a, browser_steal, browser)
    /\ scopes' = Append(scopes, a)
    /\ cfg' = [pc |-> "wait_for_ssh", fix_ntp_clock |-> fix, loosen_pgssl |-> loosen,
               v58 |-> v58, restart_evm |-> FALSE]
    /\ s_last' = StackOp("enter", a, a, "none", <<>>, FALSE)
    /\ UNCHANGED <<browser_steal, base_url, created>>

\* the current step of configure ends; ok: it returned, otherwise it raised
ConfigureStep(ok, shotRaises) ==
    /\ cfg.pc # "idle"
    /\ IF ok /\ next_step(cfg) # "leave"
       THEN /\ cfg' = [cfg EXCEPT !.pc = next_step(cfg), !.restart_evm = restart_after(cfg)]
            /\ UNCHANGED <<stack, scopes, browser, s_last>>
       ELSE /\ LeaveScope("configure_exit", ~ok, shotRaises)
            /\ cfg' = IdleCfg
    /\ UNCHANGED <<browser_steal, base_url, created>>

(* ------------------------------------------------------------------ *)
(* Cached properties of an IPAppliance                                 *)
(* ------------------------------------------------------------------ *)
\* most db.Db handles constructed in one run
MaxDbObjs == 3

ADDR == "appl"
NoHost == "None"
ExtHosts == {"dbhost1", "dbhost2"}
Hosts == {ADDR} \cup ExtHosts
\* what the remote configuration may name as the server's host
YamlHosts == {NoHost, ADDR, "localhost", "dbhost1"}
Outputs == {"out1", "out2"}

\* the configuration of a server that names host h
Yaml(h) == [host |-> h, company |-> "c1", storage |-> FALSE, role |-> {}, name |-> "EVM"]

\* A helper for the IDs (1e12 in the source; the ids of the model are scaled to it)
SEQ_FACT == 1000

\* /var/www/miq/vmdb/GUID of the appliance
GUID == "guid-appl"

Server(id, name, ip, g, zone) ==
    [id |-> id, name |-> name, ipaddress |-> ip, guid |-> g, zone_id |-> zone]

\* a database of region 0 with the appliance's server alone
Vmdb1 ==
    [tables |-> TRUE, regions |-> <<0>>,
     servers |-> <<Server(1, "EVM", ADDR, GUID, 1)>>,
     zones |-> <<"Default Zone", "Second Zone">>]

NoWebCall == [op |-> "init", unsure |-> "False", probes |-> <<>>, ret |-> "none",
              err |-> "none"]

\* no wait_for of the server_roles setter is running
NoWait == [active |-> FALSE, want |-> <<>>, polls |-> 0]

\* ro_last: same: the requested mapping equals the visible one, calls: the
\* configuration reads and writes made, storage_cached: is_storage_enabled was
\* cached when the step began
RoleOp(op, err, want, same, calls, storage_cached) ==
    [op |-> op, err |-> err, want |-> want, same |-> same, calls |-> calls,
     storage_cached |-> storage_cached]

NoRoleOp == RoleOp("init", "none", <<>>, FALSE, <<>>, FALSE)

Cached(c, n) == n \in DOMAIN c

setattr_lost(c, n, v) == c

\* self.<n> = v / the value a cached_property stores in self.__dict__
setattr(c, n, v) == [k \in DOMAIN c \cup {n} |-> IF k = n THEN v ELSE c[k]]

\* utils.clear_property_cache(obj, *names): the names are dropped from __dict__
clear_property_cache(c, names) == [k \in DOMAIN c \ names |-> c[k]]

no_clear(c, names) == c

\* "clear_property_cache(self, 'db')" of the enable_*_db operations
clear_db(c, names) == clear_property_cache(c, names)

\* cached_property ssh_client: raises when SSH is not running, else the client
\* is created and cached
ssh_client(c, up) ==
    IF Cached(c, "ssh_client") THEN [err |-> "none", cache |-> c]
    ELSE IF ~up THEN [err |-> "Exception", cache |-> c]
    ELSE [err |-> "none", cache |-> setattr(c, "ssh_client", ADDR)]

\* get_yaml_config: the dump is written by a rails command and read back
get_yaml_config(c, up, rails_ok) ==
    LET read_dump(s) ==
            IF s.err # "none" THEN [err |-> "Exception", cache |-> s.cache]
            ELSE IF ~rails_ok THEN [err |-> "Exception", cache |-> s.cache]
            ELSE [err |-> "none", cache |-> s.cache]
    IN read_dump(ssh_client(c, up))

\* cached_property get_host_address: None when the configuration cannot be read
get_host_address(c, up, rails_ok, y) ==
    LET host_of(g) ==
            IF g.err = "none"
            THEN [val |-> y.host, cache |-> setattr(g.cache, "get_host_address", y.host)]
            ELSE [val |-> NoHost, cache |-> setattr(g.cache, "get_host_address", NoHost)]
    IN IF Cached(c, "get_host_address")
       THEN [val |-> c["get_host_address"], cache |-> c]
       ELSE host_of(get_yaml_config(c, up, rails_ok))

\* wait_for_host_address: polls the cached property get_host_address, whose
\* first value is the one every poll sees; None after the timeout
wait_for_host_address(c, up, rails_ok, y) == get_host_address(c, up, rails_ok, y)

\* cached_property db_address
db_address(c, dbh, up, rails_ok, y) ==
    LET remote(s, v) ==
            IF s.err # "none"
            THEN [err |-> s.err, val |-> NoHost, cache |-> s.cache]
            ELSE [err |-> "none", val |-> v, cache |-> setattr(s.cache, "db_address", v)]
        from_host(h) ==
            IF h.val = NoHost
            THEN [err |-> "none", val |-> ADDR, cache |-> setattr(h.cache, "db_address", ADDR)]
            ELSE remote(ssh_client(h.cache, up),
                        IF h.val \in {ADDR, "localhost"} THEN ADDR ELSE h.val)
    IN IF Cached(c, "db_address")
       THEN [err |-> "none", val |-> c["db_address"], cache |-> c]
       ELSE IF dbh # NoHost
       THEN [err |-> "none", val |-> dbh, cache |-> setattr(c, "db_address", dbh)]
       ELSE from_host(wait_for_host_address(c, up, rails_ok, y))

\* cached_property db: db.Db(self.db_address), the n-th handle constructed
db(c, dbh, up, rails_ok, y, n) ==
    LET Db(a) ==
            IF a.err # "none"
            THEN [err |-> a.err, val |-> [hostname |-> NoHost, oid |-> 0], cache |-> a.cache,
                  made |-> FALSE]
            ELSE [err |-> "none", val |-> [hostname |-> a.val, oid |-> n],
                  cache |-> setattr(a.cache, "db", [hostname |-> a.val, oid |-> n]),
                  made |-> TRUE]
    IN IF Cached(c, "db")
       THEN [err |-> "none", val |-> c["db"], cache |-> c, made |-> FALSE]
       ELSE Db(db_address(c, dbh, up, rails_ok, y))

\* the oids of the handle cached in c
cached_oids(c) == IF Cached(c, "db") THEN {c["db"].oid} ELSE {}

\* a_last of an appliance operation; ret: (status, out) returned, msg: the values
\* formatted into the exception's message, cmds: the remote operations issued,
\* before: db_address in __dict__ when the call began, oid and made: the handle
\* a read of db returned and whether the read constructed it
AppOp(op, arg, err, ret, msg, status, out, cmds, before) ==
    [op |-> op, arg |-> arg, err |-> err, ret |-> ret, msg |-> msg,
     status |-> status, out |-> out, cmds |-> cmds, before |-> before,
     oid |-> 0, made |-> FALSE]

NoRet == [status |-> -1, out |-> "None"]

attr(c, n) == IF Cached(c, n) THEN c[n] ELSE "unset"

\* the appliance is not used and nothing of it is cached
AppFresh ==
    /\ cache = <<>>
    /\ db_host = NoHost
    /\ ssh_up = TRUE
    /\ yaml = Yaml(NoHost)
    /\ db_made = 0
    /\ stale = {}
    /\ a_last = AppOp("init", NoHost, "none", NoRet, {}, -1, "None", <<>>, "unset")
    /\ db_ssh_client_attr = NoHost
    /\ remote_db = [online |-> FALSE, has_database |-> FALSE, has_tables |-> FALSE]
    /\ r_pc = "idle"
    /\ r_evals = <<>>
    /\ r_ret = "none"
    /\ w_last = NoWebCall
    /\ active_roles = {}
    /\ role_wait = NoWait
    /\ ro_last = NoRoleOp

\* the appliance is not used
AppIdle == AppFresh /\ vmdb = Vmdb1

AppInit ==
    /\ cache = <<>>
    /\ db_host \in {NoHost, "dbhost1"}
    /\ ssh_up \in BOOLEAN
    /\ yaml \in {Yaml(h) : h \in YamlHosts}
    /\ db_made = 0
    /\ stale = {}
    /\ a_last = AppOp("init", NoHost, "none", NoRet, {}, -1, "None", <<>>, "unset")
    /\ db_ssh_client_attr = NoHost
    /\ remote_db = [online |-> FALSE, has_database |-> FALSE, has_tables |-> FALSE]
    /\ r_pc = "idle"
    /\ r_evals = <<>>
    /\ r_ret = "none"
    /\ vmdb = Vmdb1
    /\ w_last = NoWebCall
    /\ active_roles = {}
    /\ role_wait = NoWait
    /\ ro_last = NoRoleOp

\* remote: the SSH port comes up or goes away
RemoteSsh ==
    /\ ssh_up' = ~ssh_up
    /\ UNCHANGED <<cache, db_host, yaml, db_made, stale, a_last>>
    /\ UNCHANGED <<db_ssh_client_attr, remote_db, r_pc, r_evals, r_ret, vmdb, w_last, role_vars>>

\* a read of self.db
GetDb(rails_ok) ==
    LET r == db(cache, db_host, ssh_up, rails_ok, yaml, db_made + 1) IN
    /\ r.made => db_made < MaxDbObjs
    /\ cache' = r.cache
    /\ db_made' = IF r.made THEN db_made + 1 ELSE db_made
    /\ a_last' = [AppOp("db", r.val.hostname, r.err, NoRet, {}, -1, "None", <<>>,
                         attr(cache, "db_address"))
                   EXCEPT !.oid = r.val.oid, !.made = r.made]
    /\ UNCHANGED <<db_host, ssh_up, yaml, stale>>
    /\ UNCHANGED <<db_ssh_client_attr, remote_db, r_pc, r_evals, r_ret, vmdb, w_last, role_vars>>

\* the remote operations of the enable_*_db script fallback; raises: the
\* run_command of the script raised (a socket timeout) instead of returning
script_cmds(raises) ==
    IF raises THEN <<"put_file", "ruby">> ELSE <<"put_file", "ruby", "rm">>

internal_cmds_retry(has_cli, key, raises) ==
    IF has_cli THEN <<"cli --internal --force-key", "cli --internal --force-key">>
    ELSE script_cmds(raises) \o script_cmds(raises)

\* the remote operations of enable_internal_db
internal_cmds(has_cli, key, raises) ==
    IF has_cli THEN IF key THEN <<"cli --internal --fetch-key">> ELSE <<"cli --internal --force-key">>
    ELSE script_cmds(raises)

\* what a remote command that ran gives the caller: (status, out), or the
\* exception of a run_command that raised
ran(op, host, raises, status, out, cmds, before) ==
    IF raises
    THEN AppOp(op, host, "socket.timeout", NoRet, {}, -1, "None", cmds, before)
    ELSE AppOp(op, host, "none", [status |-> status, out |-> out], {}, status, out, cmds,
               before)

\* enable_internal_db(region, key_address, ...): status and out are what the
\* remote command gives
EnableInternalDb(has_cli, key, raises, status, out) ==
    LET c1 == clear_db(setattr(cache, "db_address", ADDR), {"db"})
        s == ssh_client(c1, ssh_up)
    IN
    /\ cache' = s.cache
    /\ stale' = stale \cup cached_oids(cache)
    /\ a_last' = IF s.err # "none"
                  THEN AppOp("enable_internal_db", ADDR, s.err, NoRet, {}, -1, "None", <<>>,
                             attr(cache, "db_address"))
                  ELSE ran("enable_internal_db", ADDR, raises, status, out,
                           internal_cmds(has_cli, key, raises), attr(cache, "db_address"))
    /\ UNCHANGED <<db_host, ssh_up, yaml, db_made>>
    /\ UNCHANGED <<db_ssh_client_attr, remote_db, r_pc, r_evals, r_ret, vmdb, w_last, role_vars>>

\* the remote operations of enable_external_db
external_cmds(has_cli, raises) ==
    IF has_cli THEN <<"get_file v2_key", "put_file v2_key", "cli --hostname">>
    ELSE script_cmds(raises)

\* the values formatted into the message of the ApplianceException of
\* enable_external_db
external_db_msg(address, host, out) == {address, host}

\* enable_external_db(db_address, ...)
EnableExternalDb(host, has_cli, raises, status, out) ==
    LET c1 == clear_db(setattr(cache, "db_address", host), {"db"})
        s == ssh_client(c1, ssh_up)
    IN
    /\ cache' = s.cache
    /\ stale' = stale \cup cached_oids(cache)
    /\ a_last' = IF s.err # "none"
                  THEN AppOp("enable_external_db", host, s.err, NoRet, {}, -1, "None", <<>>,
                             attr(cache, "db_address"))
                  ELSE IF ~raises /\ status # 0
                  THEN AppOp("enable_external_db", host, "ApplianceException", NoRet,
                             external_db_msg(ADDR, host, out), status, out,
                             external_cmds(has_cli, raises), attr(cache, "db_address"))
                  ELSE ran("enable_external_db", host, raises, status, out,
                           external_cmds(has_cli, raises), attr(cache, "db_address"))
    /\ UNCHANGED <<db_host, ssh_up, yaml, db_made>>
    /\ UNCHANGED <<db_ssh_client_attr, remote_db, r_pc, r_evals, r_ret, vmdb, w_last, role_vars>>

(* ------------------------------------------------------------------ *)
(* Configuration and the properties cached from it                     *)
(* ------------------------------------------------------------------ *)
Companies == {"c1", "c2"}

\* cached_property is_storage_enabled: 'storage' in get_yaml_config()['product']
is_storage_enabled(c, up, rails_ok, y) ==
    LET in_product(g) ==
            IF g.err # "none"
            THEN [err |-> g.err, val |-> FALSE, cache |-> g.cache,
                  calls |-> <<"get_yaml_config">>]
            ELSE [err |-> "none", val |-> y.storage,
                  cache |-> setattr(g.cache, "is_storage_enabled", y.storage),
                  calls |-> <<"get_yaml_config">>]
    IN IF Cached(c, "is_storage_enabled")
       THEN [err |-> "none", val |-> c["is_storage_enabled"], cache |-> c, calls |-> <<>>]
       ELSE in_product(get_yaml_config(c, up, rails_ok))

\* cached_property company_name: get_yaml_config()["server"]["company"]
company_name(c, up, rails_ok, y) ==
    LET company(g) ==
            IF g.err # "none" THEN [err |-> g.err, cache |-> g.cache]
            ELSE [err |-> "none", cache |-> setattr(g.cache, "company_name", y.company)]
    IN IF Cached(c, "company_name") THEN [err |-> "none", cache |-> c]
       ELSE company(get_yaml_config(c, up, rails_ok))

\* cached_property guid: cat /var/www/miq/vmdb/GUID
guid(c, up) ==
    LET cat(s) ==
            IF s.err # "none" THEN [err |-> s.err, val |-> "None", cache |-> s.cache]
            ELSE [err |-> "none", val |-> GUID, cache |-> setattr(s.cache, "guid", GUID)]
    IN IF Cached(c, "guid") THEN [err |-> "none", val |-> c["guid"], cache |-> c]
       ELSE cat(ssh_client(c, up))

NoneDetails == [kind |-> "None", region |-> -1, name |-> "None", id |-> -1, zone_id |-> -1]

NoneTuple == [kind |-> "tuple", region |-> -1, name |-> "None", id |-> -1, zone_id |-> -1]

filter_any(srv, reg_min, reg_max, hostname, g) == TRUE

\* server_filter of configuration_details
server_filter(srv, reg_min, reg_max, hostname, g) ==
    /\ srv.id >= reg_min
    /\ srv.id < reg_max
    /\ (srv.ipaddress = hostname \/ srv.guid = g)

\* the value of configuration_details for the first region of the database
details_value(v, hostname, g) ==
    LET region == v.regions[1]
        reg_min == region * SEQ_FACT
        reg_max == reg_min + SEQ_FACT
        fit == {i \in 1..Len(v.servers) :
                    server_filter(v.servers[i], reg_min, reg_max, hostname, g)}
        pick == IF Len(v.servers) = 1 THEN {1} ELSE fit
    IN IF pick = {} THEN NoneTuple
       ELSE LET srv == v.servers[CHOOSE i \in pick : \A j \in pick : i <= j] IN
            [kind |-> "tuple", region |-> region, name |-> srv.name, id |-> srv.id,
             zone_id |-> srv.zone_id]

\* cached_property configuration_details; queried: the tables of the database
\* were queried
configuration_details(c, dbh, up, rails_ok, y, n, v) ==
    LET cache_details(cc, val, made) ==
            [err |-> "none", val |-> val, cache |-> setattr(cc, "configuration_details", val),
             made |-> made, queried |-> TRUE]
        filtered(d, g) ==
            IF g.err # "none"
            THEN [err |-> g.err, val |-> NoneDetails, cache |-> g.cache, made |-> d.made,
                  queried |-> TRUE]
            ELSE cache_details(g.cache, details_value(v, d.val.hostname, g.val), d.made)
        query(d) ==
            IF d.err # "none"
            THEN [err |-> d.err, val |-> NoneDetails, cache |-> d.cache, made |-> d.made,
                  queried |-> FALSE]
            ELSE IF ~v.tables \/ v.regions = <<>>
            THEN cache_details(d.cache, NoneDetails, d.made)
            ELSE IF /\ Len(v.servers) # 1
                    /\ \E i \in 1..Len(v.servers) : v.servers[i].ipaddress # d.val.hostname
            THEN filtered(d, guid(d.cache, up))
            ELSE filtered(d, [err |-> "none", val |-> "None", cache |-> d.cache])
    IN IF Cached(c, "configuration_details")
       THEN [err |-> "none", val |-> c["configuration_details"], cache |-> c, made |-> FALSE,
             queried |-> FALSE]
       ELSE query(db(c, dbh, up, rails_ok, y, n))

\* server_zone_id: configuration_details[3], None when there are no details
server_zone_id(details) == IF details.kind = "None" THEN -1 ELSE details.zone_id

\* cached_property zone_description
zone_description(c, dbh, up, rails_ok, y, n, v) ==
    LET cache_zone(cd, descr) ==
            [err |-> "none", cache |-> setattr(cd.cache, "zone_description", descr),
             made |-> cd.made]
        zone(cd, zone_id) ==
            IF cd.err # "none" THEN [err |-> cd.err, cache |-> cd.cache, made |-> cd.made]
            ELSE cache_zone(cd, IF zone_id \in 1..Len(v.zones) THEN v.zones[zone_id]
                                ELSE "None")
        of_server(cd) == zone(cd, server_zone_id(cd.val))
    IN IF Cached(c, "zone_description")
       THEN [err |-> "none", cache |-> c, made |-> FALSE]
       ELSE of_server(configuration_details(c, dbh, up, rails_ok, y, n, v))

\* the properties cached from the remote configuration and database
ConfigProperties ==
    {"configuration_details", "zone_description", "is_storage_enabled", "company_name",
     "get_host_address"}

\* a read of the cached property name
read(name, c, dbh, up, rails_ok, y, n, v) ==
    LET result(r, made) == [err |-> r.err, cache |-> r.cache, made |-> made]
        made_by(r) == result(r, r.made)
        host(r) == [err |-> "none", cache |-> r.cache, made |-> FALSE]
    IN CASE name = "configuration_details" ->
                made_by(configuration_details(c, dbh, up, rails_ok, y, n, v))
         [] name = "zone_description" ->
                made_by(zone_description(c, dbh, up, rails_ok, y, n, v))
         [] name = "is_storage_enabled" ->
                result(is_storage_enabled(c, up, rails_ok, y), FALSE)
         [] name = "company_name" -> result(company_name(c, up, rails_ok, y), FALSE)
         [] name = "get_host_address" -> host(get_host_address(c, up, rails_ok, y))

\* a read of one of the properties cached from the configuration
GetProperty(name, rails_ok) ==
    LET got(r) ==
            /\ r.made => db_made < MaxDbObjs
            /\ cache' = r.cache
            /\ db_made' = IF r.made THEN db_made + 1 ELSE db_made
            /\ a_last' = AppOp(name, NoHost, r.err, NoRet, {}, -1, "None", <<>>,
                               attr(cache, "db_address"))
    IN
    /\ got(read(name, cache, db_host, ssh_up, rails_ok, yaml, db_made + 1, vmdb))
    /\ UNCHANGED <<db_host, ssh_up, yaml, stale>>
    /\ UNCHANGED <<db_ssh_client_attr, remote_db, r_pc, r_evals, r_ret, vmdb, w_last, role_vars>>

\* server_details_changed
server_details_changed(c) ==
    clear_property_cache(c, {"configuration_details", "zone_description"})

set_yaml_config_clear_first(c, up, rails_ok, y, data) ==
    LET load(s) ==
            IF s.err # "none" THEN [err |-> s.err, cache |-> s.cache, yaml |-> y]
            ELSE IF ~rails_ok
            THEN [err |-> "Exception", cache |-> server_details_changed(s.cache), yaml |-> y]
            ELSE [err |-> "none", cache |-> server_details_changed(s.cache), yaml |-> data]
    IN load(ssh_client(c, up))

\* set_yaml_config(data_dict): the document and the script are uploaded and the
\* script is run by rails; a false result raises
set_yaml_config(c, up, rails_ok, y, data) ==
    LET load(s) ==
            IF s.err # "none" THEN [err |-> s.err, cache |-> s.cache, yaml |-> y]
            ELSE IF ~rails_ok THEN [err |-> "Exception", cache |-> s.cache, yaml |-> y]
            ELSE [err |-> "none", cache |-> server_details_changed(s.cache), yaml |-> data]
    IN load(ssh_client(c, up))

\* the documents a caller writes: the configuration read with one entry changed
YamlEdits(y) ==
    {[y EXCEPT !.company = c] : c \in Companies}
        \cup {[y EXCEPT !.storage = b] : b \in BOOLEAN}
        \cup {[y EXCEPT !.host = h] : h \in YamlHosts}

\* a call of set_yaml_config
SetYamlConfig(data, rails_ok) ==
    LET written(r) ==
            /\ cache' = r.cache
            /\ yaml' = r.yaml
            /\ a_last' = AppOp("set_yaml_config", NoHost, r.err, NoRet, {}, -1, "None", <<>>,
                               attr(cache, "db_address"))
    IN
    /\ written(set_yaml_config(cache, ssh_up, rails_ok, yaml, data))
    /\ UNCHANGED <<db_host, ssh_up, db_made, stale>>
    /\ UNCHANGED <<db_ssh_client_attr, remote_db, r_pc, r_evals, r_ret, vmdb, w_last, role_vars>>

(* ------------------------------------------------------------------ *)
(* Server roles                                                        *)
(* ------------------------------------------------------------------ *)
\* most polls of a wait_for explored
MaxPolls == 2
MaxServers == 2

\* the names in the server_roles table
AllRoleNames == {"automate", "storage_inventory", "vmdb_storage_bridge", "database_owner"}

\* key.startswith('storage')
startswith_storage(key) == key \in {"storage_inventory"}

\* cached_property evm_id: the id of the server with the appliance's guid
evm_id(c, dbh, up, rails_ok, y, n, v) ==
    LET first(mine) == v.servers[CHOOSE i \in mine : \A j \in mine : i <= j].id
        mine(d, g, found) ==
            IF g.err # "none" THEN [err |-> g.err, cache |-> g.cache, made |-> d.made]
            ELSE IF found = {} THEN [err |-> "IndexError", cache |-> g.cache, made |-> d.made]
            ELSE [err |-> "none", made |-> d.made,
                  cache |-> setattr(g.cache, "evm_id", first(found))]
        by_guid(d, g) ==
            mine(d, g, {i \in 1..Len(v.servers) : v.servers[i].guid = g.val})
        query(d) ==
            IF d.err # "none" THEN [err |-> d.err, cache |-> d.cache, made |-> d.made]
            ELSE by_guid(d, guid(d.cache, up))
    IN IF Cached(c, "evm_id") THEN [err |-> "none", cache |-> c, made |-> FALSE]
       ELSE query(db(c, dbh, up, rails_ok, y, n))

dead_keys_static(names, storage) == {"database_owner", "vdi_inventory"}

\* the keys the server_roles getter deletes
dead_keys(names, storage) ==
    {"database_owner", "vdi_inventory"}
        \cup IF storage THEN {}
             ELSE {k \in names : startswith_storage(k) \/ k = "vmdb_storage_bridge"}

\* the server_roles getter: role name -> active, without the dead keys
server_roles(c, dbh, up, rails_ok, y, n, v, active) ==
    LET visible(e, st, keys) ==
            [err |-> "none", val |-> [k \in keys |-> k \in active], cache |-> st.cache,
             made |-> e.made, calls |-> st.calls]
        without_dead(e, st) ==
            IF st.err # "none"
            THEN [err |-> st.err, val |-> <<>>, cache |-> st.cache, made |-> e.made,
                  calls |-> st.calls]
            ELSE visible(e, st, AllRoleNames \ dead_keys(AllRoleNames, st.val))
        roles_of(e) ==
            IF e.err # "none"
            THEN [err |-> e.err, val |-> <<>>, cache |-> e.cache, made |-> e.made,
                  calls |-> <<>>]
            ELSE IF AllRoleNames = {}
            THEN without_dead(e, [err |-> "none", val |-> FALSE, cache |-> e.cache,
                                  calls |-> <<>>])
            ELSE without_dead(e, is_storage_enabled(e.cache, up, rails_ok, y))
    IN roles_of(evm_id(c, dbh, up, rails_ok, y, n, v))

roles_match_common(current, roles) ==
    \A k \in DOMAIN current \cap DOMAIN roles : current[k] = roles[k]

always_differs(current, roles) == FALSE

\* "self.server_roles == roles" of the setter
roles_match(current, roles) == current = roles

\* the mappings callers assign: one boolean per key, for the keys visible
\* without and with storage
RoleRequests ==
    UNION {[D -> BOOLEAN] : D \in {{"automate"},
                                     {"automate", "storage_inventory", "vmdb_storage_bridge"}}}

\* "self.server_roles = roles" up to the start of the wait
ServerRolesSet(roles, rails_ok, rails_ok_write) ==
    LET sc == Cached(cache, "is_storage_enabled")
        done(c, err, same, calls) ==
            /\ cache' = c
            /\ ro_last' = RoleOp("set", err, roles, same, calls, sc)
            /\ UNCHANGED <<yaml, role_wait>>
        written(w, same, calls) ==
            /\ cache' = w.cache
            /\ yaml' = w.yaml
            /\ ro_last' = RoleOp("set", w.err, roles, same, calls, sc)
            /\ role_wait' = IF w.err = "none"
                            THEN [active |-> TRUE, want |-> roles, polls |-> 0]
                            ELSE role_wait
        write(y, same, calls) ==
            IF y.err # "none" THEN done(y.cache, y.err, same, calls)
            ELSE written(set_yaml_config(y.cache, ssh_up, rails_ok_write, yaml,
                                         [yaml EXCEPT !.role = {k \in DOMAIN roles : roles[k]}]),
                         same, calls \o <<"set_yaml_config">>)
        compare(g, same) ==
            /\ g.made => db_made < MaxDbObjs
            /\ db_made' = IF g.made THEN db_made + 1 ELSE db_made
            /\ IF g.err # "none" THEN done(g.cache, g.err, same, g.calls)
               ELSE IF roles_match(g.val, roles) THEN done(g.cache, "none", same, g.calls)
               ELSE write(get_yaml_config(g.cache, ssh_up, rails_ok), same,
                          g.calls \o <<"get_yaml_config">>)
        current(g) == compare(g, g.err = "none" /\ g.val = roles)
    IN
    /\ ~role_wait.active
    /\ current(server_roles(cache, db_host, ssh_up, rails_ok, yaml, db_made + 1, vmdb,
                            active_roles))
    /\ UNCHANGED <<db_host, ssh_up, stale, a_last, active_roles>>
    /\ UNCHANGED <<db_ssh_client_attr, remote_db, r_pc, r_evals, r_ret, vmdb, w_last>>

\* one poll of "wait_for(lambda: self.server_roles == roles, num_sec=300, delay=15)"
ServerRolesPoll(rails_ok) ==
    LET sc == Cached(cache, "is_storage_enabled")
        step(op, err, same, calls, w) ==
            /\ ro_last' = RoleOp(op, err, role_wait.want, same, calls, sc)
            /\ role_wait' = w
        compare(g, same) ==
            /\ g.made => db_made < MaxDbObjs
            /\ db_made' = IF g.made THEN db_made + 1 ELSE db_made
            /\ cache' = g.cache
            /\ IF g.err # "none" THEN step("wait", g.err, same, g.calls, NoWait)
               ELSE IF roles_match(g.val, role_wait.want)
               THEN step("wait", "none", same, g.calls, NoWait)
               ELSE IF role_wait.polls + 1 >= MaxPolls
               THEN step("wait", "TimedOutError", same, g.calls, NoWait)
               ELSE step("poll", "none", same, g.calls, [role_wait EXCEPT !.polls = @ + 1])
        current(g) == compare(g, g.err = "none" /\ g.val = role_wait.want)
    IN
    /\ role_wait.active
    /\ current(server_roles(cache, db_host, ssh_up, rails_ok, yaml, db_made + 1, vmdb,
                            active_roles))
    /\ UNCHANGED <<db_host, ssh_up, yaml, stale, a_last, active_roles>>
    /\ UNCHANGED <<db_ssh_client_attr, remote_db, r_pc, r_evals, r_ret, vmdb, w_last>>

\* remote: the server takes the roles its configuration names
RemoteApplyRoles ==
    /\ active_roles # yaml.role
    /\ active_roles' = yaml.role
    /\ UNCHANGED <<cache, db_host, ssh_up, yaml, db_made, stale, a_last, role_wait, ro_last>>
    /\ UNCHANGED <<db_ssh_client_attr, remote_db, r_pc, r_evals, r_ret, vmdb, w_last>>

(* ------------------------------------------------------------------ *)
(* Database readiness                                                  *)
(* ------------------------------------------------------------------ *)
\* the states of the database server: tables only inside a database
RemoteDbStates ==
    {r \in [online : BOOLEAN, has_database : BOOLEAN, has_tables : BOOLEAN] :
        r.has_tables => r.has_database}

\* remote: the database server changes
RemoteDb(new) ==
    /\ new # remote_db
    /\ remote_db' = new
    /\ UNCHANGED <<cache, db_host, ssh_up, yaml, db_made, stale, a_last,
                   db_ssh_client_attr, r_pc, r_evals, r_ret, vmdb, w_last, role_vars>>

\* property db_ssh_client: the appliance's own client for an internal
\* database, else self._db_ssh_client, created on first use
db_ssh_client(c, dbh, up, rails_ok, y, dsc) ==
    LET a == db_address(c, dbh, up, rails_ok, y) IN
    IF a.err # "none" THEN [err |-> a.err, cache |-> a.cache, attr |-> dsc, host |-> NoHost]
    ELSE LET s == ssh_client(a.cache, up) IN
         IF a.val = ADDR \/ dsc = NoHost
         THEN IF s.err # "none"
              THEN [err |-> s.err, cache |-> s.cache, attr |-> dsc, host |-> NoHost]
              ELSE IF a.val = ADDR
              THEN [err |-> "none", cache |-> s.cache, attr |-> dsc, host |-> ADDR]
              ELSE [err |-> "none", cache |-> s.cache, attr |-> a.val, host |-> a.val]
         ELSE [err |-> "none", cache |-> a.cache, attr |-> dsc, host |-> dsc]

\* the exit status of the psql command of a check
db_check_rc(check, rdb) ==
    CASE check = "db_online" -> IF rdb.online THEN 0 ELSE 2
      [] check = "db_has_database" -> IF rdb.online /\ rdb.has_database THEN 0 ELSE 1
      [] check = "db_has_tables" -> IF rdb.online /\ rdb.has_tables THEN 0 ELSE 1

CheckOrder == <<"db_online", "db_has_database", "db_has_tables">>

following(check) ==
    CASE check = "db_online" -> "db_has_database"
      [] check = "db_has_database" -> "db_has_tables"
      [] check = "db_has_tables" -> "return"

all_chain(check, result) == following(check)

\* "self.db_online and self.db_has_database and self.db_has_tables": what is
\* evaluated after the check gave result
and_chain(check, result) == IF result THEN following(check) ELSE "return"

\* a read of is_db_ready begins
IsDbReadyStart ==
    /\ r_pc = "idle"
    /\ r_pc' = "db_online"
    /\ r_evals' = <<>>
    /\ r_ret' = "pending"
    /\ UNCHANGED <<cache, db_host, ssh_up, yaml, db_made, stale, a_last,
                   db_ssh_client_attr, remote_db, vmdb, w_last, role_vars>>

\* the check r_pc (db_online, db_has_database or db_has_tables) is evaluated
IsDbReadyCheck(rails_ok) ==
    /\ r_pc # "idle"
    /\ LET cl == db_ssh_client(cache, db_host, ssh_up, rails_ok, yaml, db_ssh_client_attr)
           result == db_check_rc(r_pc, remote_db) = 0
           nxt == and_chain(r_pc, result)
           ev == [check |-> r_pc, client |-> cl.host,
                  result |-> IF cl.err # "none" THEN "raise"
                             ELSE IF result THEN "True" ELSE "False"]
       IN
        /\ cache' = cl.cache
        /\ db_ssh_client_attr' = cl.attr
        /\ r_evals' = Append(r_evals, ev)
        /\ r_pc' = IF cl.err # "none" \/ nxt = "return" THEN "idle" ELSE nxt
        /\ r_ret' = IF cl.err # "none" THEN "raise"
                    ELSE IF nxt # "return" THEN "pending"
                    ELSE IF \A i \in 1..Len(r_evals') : r_evals'[i].result = "True"
                         THEN "True" ELSE "False"
    /\ UNCHANGED <<db_host, ssh_up, yaml, db_made, stale, a_last, remote_db, vmdb, w_last, role_vars>>

(* ------------------------------------------------------------------ *)
(* Web UI readiness                                                    *)
(* ------------------------------------------------------------------ *)
\* what requests.get(self.url, timeout=15, verify=False) may give
ProbeOutcomes == {"200", "503", "Timeout", "ConnectionError", "ValueError"}

\* the values callers pass as unsure; "False" is the default
Unsures == {"False", "True", "None"}

\* _check_appliance_ui_wait_fn: True for status 200; a ValueError (invalid
\* URL) is raised again, everything else is False
check_appliance_ui_wait_fn(outcome) ==
    CASE outcome = "200" -> "True"
      [] outcome = "ValueError" -> "raise"
      [] OTHER -> "False"

num_of_tries == 3

verdict_any(count, unsure) ==
    IF count = 0 THEN "False" ELSE "True"

\* the result of is_web_ui_running after was_running_count probes succeeded
verdict(count, unsure) ==
    IF count = 0 THEN "False"
    ELSE IF count = num_of_tries THEN "True"
    ELSE unsure

\* is_web_ui_running(unsure): outs are the outcomes the three probes meet
IsWebUiRunning(unsure, outs) ==
    LET res == [i \in 1..num_of_tries |-> check_appliance_ui_wait_fn(outs[i])]
        raising == {i \in 1..num_of_tries : res[i] = "raise"}
        made == IF raising = {} THEN num_of_tries
                ELSE CHOOSE i \in raising : \A j \in raising : i <= j
        count == Cardinality({i \in 1..made : res[i] = "True"})
    IN
    /\ w_last' = [op |-> "is_web_ui_running", unsure |-> unsure,
                  probes |-> SubSeq(outs, 1, made),
                  ret |-> IF raising = {} THEN verdict(count, unsure) ELSE "none",
                  err |-> IF raising = {} THEN "none" ELSE "ValueError"]
    /\ UNCHANGED <<cache, db_host, ssh_up, yaml, db_made, stale, a_last,
                   db_ssh_client_attr, remote_db, r_pc, r_evals, r_ret, vmdb, role_vars>>

(* ------------------------------------------------------------------ *)
(* The runs of configure                                               *)
(* ------------------------------------------------------------------ *)
\* the versions of an appliance; LATEST is the upstream build
Versions == {"5.7", "5.8", "master"}

LATEST == "master"

\* self.version >= '5.8'
version_ge_58(v) == v # "5.7"

\* the keyword arguments of Appliance.configure that _custom_configure reads
NoKwargs == [fix_ntp_clock |-> TRUE, db_address |-> NoHost, loosen_pgssl |-> TRUE,
             rename |-> FALSE]

Kwargs ==
    [fix_ntp_clock : BOOLEAN, db_address : {NoHost, "dbhost1"}, loosen_pgssl : BOOLEAN,
     rename : BOOLEAN]

\* c_run: kind: "configure" (IPAppliance.configure) or "custom"
\* (_custom_configure), pc: the step of _custom_configure, log: the steps run,
\* db: what enable_internal_db returned, err: the exception that ended the run
\* a returned None, integer or string
NoVal == [none |-> TRUE, num |-> 0, str |-> ""]

NoRun == [kind |-> "none", pc |-> "idle", version |-> "5.7", kw |-> NoKwargs, log |-> <<>>,
          db |-> NoRet, err |-> "none", done |-> FALSE]

NoQuery == [op |-> "init", arg |-> "None", ssh |-> TRUE, err |-> "none", ret |-> "None",
            val |-> NoVal, queried |-> FALSE, prev |-> "fresh", hist |-> "fresh", elapsed |-> 0,
            status |-> -1, out |-> "None", msg |-> {}, cmds |-> <<>>, probes |-> <<>>]

RunIdle ==
    /\ c_run = NoRun
    /\ q_last = NoQuery

\* what wait_for(func=lambda: self.is_db_ready, ...) ends with
DbWaits == {"ready", "TimedOutError"}

\* setup_database: enable_internal_db on a downstream appliance, its returned
\* status not looked at, then the wait for is_db_ready; enable_err: how
\* enable_internal_db ended, wait: how the wait ended
setup_database(version, enable_err, wait) ==
    IF version # LATEST /\ enable_err # "none"
    THEN [log |-> <<"enable_internal_db">>, err |-> enable_err]
    ELSE [log |-> (IF version # LATEST THEN <<"enable_internal_db">> ELSE <<>>)
                      \o <<"wait_for_db_ready">>,
          err |-> IF wait = "ready" THEN "none" ELSE wait]

\* IPAppliance.configure(fix_ntp_clock=fix, loosen_pgssl=loosen) is called on a
RunConfigure(a, version, fix, loosen) ==
    /\ c_run.pc = "idle"
    /\ ConfigureStart(a, fix, loosen, version_ge_58(version))
    /\ c_run' = [NoRun EXCEPT !.kind = "configure", !.version = version,
                              !.kw = [NoKwargs EXCEPT !.fix_ntp_clock = fix,
                                                      !.loosen_pgssl = loosen]]
    /\ UNCHANGED <<app_vars, q_last>>

\* a step of configure other than setup_database ends
RunStep(ok, shotRaises) ==
    /\ c_run.kind = "configure"
    /\ cfg.pc \notin {"idle", "setup_database"}
    /\ ConfigureStep(ok, shotRaises)
    /\ c_run' = [c_run EXCEPT !.log = Append(@, cfg.pc),
                              !.err = IF ok THEN "none" ELSE "Exception",
                              !.done = cfg'.pc = "idle"]
    /\ UNCHANGED <<app_vars, q_last>>

\* the step setup_database of configure
RunSetupDatabase(has_cli, key, status, out, wait, shotRaises) ==
    LET ended(r) ==
            /\ ConfigureStep(r.err = "none", shotRaises)
            /\ c_run' = [c_run EXCEPT !.log = @ \o r.log, !.err = r.err,
                                      !.db = IF c_run.version # LATEST THEN a_last'.ret
                                             ELSE NoRet,
                                      !.done = cfg'.pc = "idle"]
    IN
    /\ c_run.kind = "configure"
    /\ cfg.pc = "setup_database"
    /\ IF c_run.version # LATEST THEN EnableInternalDb(has_cli, key, FALSE, status, out)
       ELSE UNCHANGED app_vars
    /\ ended(setup_database(c_run.version, a_last'.err, wait))
    /\ UNCHANGED q_last

\* the step of _custom_configure that follows the step pc, "leave" after the last
after_custom_loosen(kw) == IF kw.rename THEN "rename" ELSE "leave"

custom_next(pc, kw) ==
    CASE pc = "fix_ntp_clock" -> "enable_db"
      [] pc = "enable_db" -> "wait_for_web_ui"
      [] pc = "wait_for_web_ui" ->
            IF kw.loosen_pgssl THEN "loosen_pgssl" ELSE after_custom_loosen(kw)
      [] pc = "loosen_pgssl" -> after_custom_loosen(kw)
      [] pc = "rename" -> "restart_evm_service"
      [] pc = "restart_evm_service" -> "wait_for_web_ui_renamed"
      [] pc = "wait_for_web_ui_renamed" -> "leave"

\* the name in the log of the step pc of _custom_configure
custom_step_name(pc) == IF pc = "wait_for_web_ui_renamed" THEN "wait_for_web_ui" ELSE pc

\* Appliance.configure(**kwargs) with keyword arguments: "with self:" is
\* entered and _custom_configure begins
RunCustom(a, kw) ==
    /\ c_run.pc = "idle"
    /\ Enter(a)
    /\ c_run' = [NoRun EXCEPT !.kind = "custom", !.kw = kw,
                              !.pc = IF kw.fix_ntp_clock THEN "fix_ntp_clock"
                                     ELSE "enable_db"]
    /\ UNCHANGED <<outer, thread_vars, app_vars, q_last>>

\* what ends a step of _custom_configure: the next step, or the scope is left
CustomAdvance(name, err, ret, shotRaises) ==
    LET nxt == custom_next(c_run.pc, c_run.kw) IN
    IF err = "none" /\ nxt # "leave"
    THEN /\ c_run' = [c_run EXCEPT !.pc = nxt, !.log = Append(@, name), !.db = ret]
         /\ UNCHANGED stack_vars
    ELSE /\ Exit(err # "none", shotRaises)
         /\ c_run' = [c_run EXCEPT !.pc = "idle", !.log = Append(@, name), !.db = ret,
                                   !.err = err, !.done = TRUE]
         /\ UNCHANGED <<outer, thread_vars>>

\* a step of _custom_configure other than the database step ends
CustomStep(ok, shotRaises) ==
    /\ c_run.pc \notin {"idle", "enable_db"}
    /\ CustomAdvance(custom_step_name(c_run.pc), IF ok THEN "none" ELSE "Exception",
                     c_run.db, shotRaises)
    /\ UNCHANGED <<app_vars, q_last>>

\* the database step of _custom_configure: enable_internal_db without
\* db_address, else enable_external_db
CustomEnableDb(has_cli, key, status, out, shotRaises) ==
    /\ c_run.pc = "enable_db"
    /\ IF c_run.kw.db_address = NoHost THEN EnableInternalDb(has_cli, key, FALSE, status, out)
       ELSE EnableExternalDb(c_run.kw.db_address, has_cli, FALSE, status, out)
    /\ CustomAdvance(a_last'.op, a_last'.err, a_last'.ret, shotRaises)
    /\ UNCHANGED q_last

(* ------------------------------------------------------------------ *)
(* The EVM service, the probes and the wait for the web UI             *)
(* ------------------------------------------------------------------ *)
\* the exit statuses of systemctl looked at
Statuses == {0, 1, 3}

\* 'systemctl {} evmserverd'.format(command)
systemctl(command) ==
    CASE command = "start" -> "systemctl start evmserverd"
      [] command = "stop" -> "systemctl stop evmserverd"
      [] command = "restart" -> "systemctl restart evmserverd"
      [] command = "status" -> "systemctl status evmserverd"

exit_ignored(expected, status) == FALSE

\* "expected_exit_code is not None and status != expected_exit_code";
\* expected is <<>> for None
exit_mismatch(expected, status) == expected # <<>> /\ status # expected[1]

\* _evm_service_command(command, log_callback, expected_exit_code) after the
\* operations before had been issued
evm_service_command(c, up, command, expected, status, out, before) ==
    LET run(s) ==
            IF s.err # "none"
            THEN [err |-> s.err, cache |-> s.cache, status |-> -1, out |-> "None",
                  msg |-> {}, cmds |-> before]
            ELSE IF exit_mismatch(expected, status)
            THEN [err |-> "ApplianceException", cache |-> s.cache, status |-> status,
                  out |-> out, msg |-> {command, ADDR, out},
                  cmds |-> Append(before, systemctl(command))]
            ELSE [err |-> "none", cache |-> s.cache, status |-> status, out |-> out,
                  msg |-> {}, cmds |-> Append(before, systemctl(command))]
    IN run(ssh_client(c, up))

\* q_last of a service command that ended as r
Query(op, arg, r, ret) ==
    [NoQuery EXCEPT !.op = op, !.arg = arg, !.ssh = ssh_up, !.err = r.err, !.ret = ret,
                    !.status = r.status, !.out = r.out, !.msg = r.msg, !.cmds = r.cmds]

\* stop_evm_service / start_evm_service
EvmService(command, status, out) ==
    LET ended(r) ==
            /\ cache' = r.cache
            /\ q_last' = Query(command, "None", r, "None")
    IN
    /\ command \in {"stop", "start"}
    /\ ended(evm_service_command(cache, ssh_up, command, <<0>>, status, out, <<>>))
    /\ UNCHANGED <<db_host, ssh_up, yaml, db_made, stale, a_last>>
    /\ UNCHANGED <<db_ssh_client_attr, remote_db, r_pc, r_evals, r_ret, vmdb, w_last, role_vars>>
    /\ UNCHANGED c_run

restart_verb_plain(rude) == "restart"

\* the verb restart_evm_service hands to _evm_service_command
restart_verb(rude) == IF rude THEN "start" ELSE "restart"

\* what restart_evm_service issues before that: with rude the processes are
\* killed and the database is restarted, whatever that command's status; the
\* client is obtained first, and nothing is issued when that raises
restart_first(rude, s) ==
    IF rude /\ s.err = "none" THEN <<"killall -9 ruby; systemctl restart postgresql">>
    ELSE <<>>

\* restart_evm_service(rude)
RestartEvmService(rude, status, out) ==
    LET ended(r) ==
            /\ cache' = IF r.err = "none" THEN server_details_changed(r.cache) ELSE r.cache
            /\ q_last' = Query("restart", IF rude THEN "rude" ELSE "None", r, "None")
    IN
    /\ ended(evm_service_command(cache, ssh_up, restart_verb(rude), <<0>>, status, out,
                                 restart_first(rude, ssh_client(cache, ssh_up))))
    /\ UNCHANGED <<db_host, ssh_up, yaml, db_made, stale, a_last>>
    /\ UNCHANGED <<db_ssh_client_attr, remote_db, r_pc, r_evals, r_ret, vmdb, w_last, role_vars>>
    /\ UNCHANGED c_run

\* Python's str(bool)
Bool(b) == IF b THEN "True" ELSE "False"

\* is_evm_service_running: _evm_service_command("status") == 0
IsEvmServiceRunning(status, out) ==
    LET ended(r) ==
            /\ cache' = r.cache
            /\ q_last' = Query("is_evm_service_running", "None", r,
                               IF r.err = "none" THEN Bool(r.status = 0) ELSE "None")
    IN
    /\ ended(evm_service_command(cache, ssh_up, "status", <<>>, status, out, <<>>))
    /\ UNCHANGED <<db_host, ssh_up, yaml, db_made, stale, a_last>>
    /\ UNCHANGED <<db_ssh_client_attr, remote_db, r_pc, r_evals, r_ret, vmdb, w_last, role_vars>>
    /\ UNCHANGED c_run

\* is_ssh_running: net_check(ports.SSH, self.hostname, force=True)
IsSshRunning ==
    /\ q_last' = [NoQuery EXCEPT !.op = "is_ssh_running", !.ssh = ssh_up, !.ret = Bool(ssh_up)]
    /\ UNCHANGED <<app_vars, c_run>>

\* a read of db_online, db_has_database or db_has_tables
DbProbe(check, rails_ok) ==
    LET ended(cl) ==
            /\ cache' = cl.cache
            /\ db_ssh_client_attr' = cl.attr
            /\ q_last' = [NoQuery EXCEPT
                            !.op = check, !.arg = cl.host, !.ssh = ssh_up, !.err = cl.err,
                            !.ret = IF cl.err # "none" THEN "None"
                                    ELSE Bool(db_check_rc(check, remote_db) = 0),
                            !.status = IF cl.err # "none" THEN -1
                                       ELSE db_check_rc(check, remote_db),
                            !.cmds = IF cl.err # "none" THEN <<>> ELSE <<"psql">>]
    IN
    /\ check \in Range(CheckOrder)
    /\ ended(db_ssh_client(cache, db_host, ssh_up, rails_ok, yaml, db_ssh_client_attr))
    /\ UNCHANGED <<db_host, ssh_up, yaml, db_made, stale, a_last, remote_db, r_pc, r_evals,
                   r_ret, vmdb, w_last, role_vars>>
    /\ UNCHANGED c_run

\* a call of the web UI probe _check_appliance_ui_wait_fn
WebUiProbe(outcome) ==
    /\ q_last' = [NoQuery EXCEPT
                    !.op = "check_appliance_ui", !.arg = outcome, !.ssh = ssh_up,
                    !.err = IF check_appliance_ui_wait_fn(outcome) = "raise" THEN "ValueError"
                            ELSE "none",
                    !.ret = IF check_appliance_ui_wait_fn(outcome) = "raise" THEN "None"
                            ELSE check_appliance_ui_wait_fn(outcome),
                    !.probes = <<outcome>>]
    /\ UNCHANGED <<app_vars, c_run>>

\* wait_for_web_ui(running) begins: wait_for(self._check_appliance_ui_wait_fn,
\* fail_condition=not running, delay=10)
WaitForWebUi(running) ==
    /\ q_last.ret # "pending"
    /\ q_last' = [NoQuery EXCEPT !.op = "wait_for_web_ui", !.arg = Bool(running),
                                 !.ssh = ssh_up, !.ret = "pending"]
    /\ UNCHANGED <<app_vars, c_run>>

\* how a poll of wait_for that called func once ends: func raised, its result
\* is not the fail condition, the time is up, or another poll follows
wait_for_poll(result, fail_condition, polls) ==
    IF result = "raise" THEN [err |-> "ValueError", ret |-> "None"]
    ELSE IF result # fail_condition THEN [err |-> "none", ret |-> result]
    ELSE IF polls >= MaxPolls THEN [err |-> "TimedOutError", ret |-> "None"]
    ELSE [err |-> "none", ret |-> "pending"]

\* one poll of the wait_for of wait_for_web_ui
WaitForWebUiPoll(outcome) ==
    LET polled(w) ==
            q_last' = [q_last EXCEPT !.probes = Append(@, outcome), !.err = w.err,
                                     !.ret = w.ret]
    IN
    /\ q_last.op = "wait_for_web_ui"
    /\ q_last.ret = "pending"
    /\ polled(wait_for_poll(check_appliance_ui_wait_fn(outcome),
                            Bool(q_last.arg = "False"), Len(q_last.probes) + 1))
    /\ UNCHANGED <<app_vars, c_run>>

(* ------------------------------------------------------------------ *)
(* The identity of the server                                          *)
(* ------------------------------------------------------------------ *)
\* the rows of miq_servers looked at: in region 0 or not, with the appliance's
\* address or GUID or another
ServerRows ==
    {Server(id, IF id = 1 THEN "EVM" ELSE IF id = 2 THEN "EVM2" ELSE "EVM1001", ip, g, 1) :
        id \in {1, 2, SEQ_FACT + 1}, ip \in {ADDR, "10.0.0.9"}, g \in {GUID, "guid-other"}}

RECURSIVE SeqsUpTo(_, _)
\* the sequences over S of length at most n
SeqsUpTo(S, n) ==
    IF n = 0 THEN {<<>>}
    ELSE SeqsUpTo(S, n - 1) \cup {Append(q, x) : q \in {r \in SeqsUpTo(S, n - 1) : Len(r) = n - 1},
                                                 x \in S}

\* the databases looked at: with or without the tables, the region row and servers
Vmdbs ==
    {[tables |-> t, regions |-> r, servers |-> q, zones |-> <<"Default Zone">>] :
        t \in BOOLEAN, r \in {<<>>, <<0>>}, q \in SeqsUpTo(ServerRows, MaxServers)}

Num(n) == IF n = -1 THEN NoVal ELSE [none |-> FALSE, num |-> n, str |-> ""]

Str(x) == IF x = "None" THEN NoVal ELSE [none |-> FALSE, num |-> 0, str |-> x]

\* server_id, server_region, server_name: an item of configuration_details, None
\* on the TypeError of indexing None
details_item(which, details) ==
    IF details.kind = "None" THEN NoVal
    ELSE CASE which = "server_id" -> Num(details.id)
           [] which = "server_region" -> Num(details.region)
           [] which = "server_name" -> Str(details.name)
           [] which = "server_zone_id" -> Num(details.zone_id)

\* what happened to configuration_details since it was last cleared: nothing
\* ("fresh"), the database was queried but no read returned ("queried"), a read
\* returned ("computed")
history(before, err, queried) ==
    IF err = "none" THEN "computed"
    ELSE IF queried /\ before = "fresh" THEN "queried"
    ELSE before

\* a call of server_id(), server_region(), server_name() or server_zone_id()
ServerIdentity(which, rails_ok) ==
    LET got(r) ==
            /\ r.made => db_made < MaxDbObjs
            /\ cache' = r.cache
            /\ db_made' = IF r.made THEN db_made + 1 ELSE db_made
            /\ q_last' = [NoQuery EXCEPT
                            !.op = which, !.ssh = ssh_up, !.err = r.err,
                            !.val = IF r.err # "none" THEN NoVal
                                    ELSE details_item(which, r.val),
                            !.queried = r.queried, !.prev = q_last.hist,
                            !.hist = history(q_last.hist, r.err, r.queried)]
    IN
    /\ which \in {"server_id", "server_region", "server_name", "server_zone_id"}
    /\ got(configuration_details(cache, db_host, ssh_up, rails_ok, yaml, db_made + 1, vmdb))
    /\ UNCHANGED <<db_host, ssh_up, yaml, stale, a_last>>
    /\ UNCHANGED <<db_ssh_client_attr, remote_db, r_pc, r_evals, r_ret, vmdb, w_last, role_vars>>
    /\ UNCHANGED c_run

\* a call of server_details_changed()
ServerDetailsChanged ==
    /\ cache' = server_details_changed(cache)
    /\ q_last' = [NoQuery EXCEPT !.op = "server_details_changed", !.ssh = ssh_up]
    /\ UNCHANGED <<db_host, ssh_up, yaml, db_made, stale, a_last>>
    /\ UNCHANGED <<db_ssh_client_attr, remote_db, r_pc, r_evals, r_ret, vmdb, w_last, role_vars>>
    /\ UNCHANGED c_run

\* a database of region 0 with the appliance's server and another one
Vmdb2 ==
    [Vmdb1 EXCEPT !.servers = <<Server(2, "EVM2", "10.0.0.9", "guid-other", 1),
                                Server(1, "EVM", ADDR, GUID, 1)>>]

restart_always(conf_file_updated, status_rc) == TRUE

\* "conf_file_updated or client.run_command('systemctl status chronyd').rc != 0"
restart_chronyd(conf_file_updated, status_rc) == conf_file_updated \/ status_rc # 0

\* the commands fix_ntp_clock runs and how it ends, for the answers of the
\* remote machine: chrony installed, enabled, clock servers configured, the
\* remote file equal to the prepared one, the statuses of 'systemctl status
\* chronyd' and of 'chronyc tracking'
fix_ntp_clock(installed, enabled, servers, same, status_rc, tracking_rc) ==
    LET check == <<"yum list installed chrony">>
        enable == check \o <<"systemctl is-enabled chronyd">>
                    \o IF enabled THEN <<>>
                       ELSE <<"systemctl enable chronyd", "systemctl daemon-reload">>
        deploy == enable \o <<"cat /etc/chrony.conf">>
                    \o IF same THEN <<"systemctl status chronyd">>
                       ELSE <<"echo > /etc/chrony.conf">>
        restart == deploy \o IF restart_chronyd(~same, status_rc)
                             THEN <<"systemctl restart chronyd">> ELSE <<>>
        verify == restart \o <<"chronyc tracking">>
    IN IF ~installed THEN [err |-> "ApplianceException", cmds |-> check]
       ELSE IF ~servers THEN [err |-> "ApplianceException", cmds |-> enable]
       ELSE IF tracking_rc # 0 THEN [err |-> "ApplianceException", cmds |-> verify]
       ELSE [err |-> "none", cmds |-> verify]

\* a call of fix_ntp_clock(); q_last.val: what the remote machine answered
FixNtpClock(installed, enabled, servers, same, status_rc, tracking_rc) ==
    LET ended(s, r) ==
            /\ cache' = s.cache
            /\ q_last' = [NoQuery EXCEPT
                            !.op = "fix_ntp_clock", !.ssh = ssh_up,
                            !.err = IF s.err # "none" THEN s.err ELSE r.err,
                            !.cmds = IF s.err # "none" THEN <<>> ELSE r.cmds,
                            !.val = [same |-> same, status_rc |-> status_rc]]
    IN
    /\ ended(ssh_client(cache, ssh_up),
             fix_ntp_clock(installed, enabled, servers, same, status_rc, tracking_rc))
    /\ UNCHANGED <<db_host, ssh_up, yaml, db_made, stale, a_last>>
    /\ UNCHANGED <<db_ssh_client_attr, remote_db, r_pc, r_evals, r_ret, vmdb, w_last, role_vars>>
    /\ UNCHANGED c_run

update_outcome_plain(timed_out, rc) ==
    IF timed_out \/ rc # 0 THEN "ApplianceException" ELSE "none"

\* how the 'yum update' of update_rhel ends: socket.timeout is caught and
\* KeyboardInterrupt raised, a non-zero status raises ApplianceException
update_outcome(timed_out, rc) ==
    IF timed_out THEN "KeyboardInterrupt"
    ELSE IF rc # 0 THEN "ApplianceException"
    ELSE "none"

\* the commands update_rhel runs from the cleanup on, and how it ends
update_rhel(cleanup, timed_out, rc, reboot) ==
    LET update == (IF cleanup THEN <<"find /etc/yum.repos.d -exec rm">> ELSE <<>>)
                    \o <<"yum update -y --nogpgcheck">>
        ended(err) ==
            [err |-> err,
             cmds |-> IF err = "none" /\ reboot THEN Append(update, "reboot") ELSE update]
    IN ended(update_outcome(timed_out, rc))

\* a call of update_rhel(); q_last.val: the arguments and what the update did
UpdateRhel(cleanup, timed_out, rc, reboot) ==
    LET ended(s, r) ==
            /\ cache' = s.cache
            /\ q_last' = [NoQuery EXCEPT
                            !.op = "update_rhel", !.ssh = ssh_up,
                            !.err = IF s.err # "none" THEN s.err ELSE r.err,
                            !.cmds = IF s.err # "none" THEN <<>> ELSE r.cmds,
                            !.val = [timed_out |-> timed_out, rc |-> rc, reboot |-> reboot]]
    IN
    /\ ended(ssh_client(cache, ssh_up), update_rhel(cleanup, timed_out, rc, reboot))
    /\ UNCHANGED <<db_host, ssh_up, yaml, db_made, stale, a_last>>
    /\ UNCHANGED <<db_ssh_client_attr, remote_db, r_pc, r_evals, r_ret, vmdb, w_last, role_vars>>
    /\ UNCHANGED c_run

\* the bounded waits for a predicate of the appliance
Waits == {"wait_for_ssh", "wait_for_db", "wait_for_evm_service"}

wait_predicate_ready(name, c, dbh, up, rails_ok, y, dsc, rdb, status, out) ==
    [err |-> "none", result |-> "True", cache |-> c, attr |-> dsc]

\* the predicate a wait hands to wait_for, evaluated once: is_ssh_running,
\* is_db_ready (db_online and db_has_database and db_has_tables) or
\* is_evm_service_running
wait_predicate(name, c, dbh, up, rails_ok, y, dsc, rdb, status, out) ==
    LET db_ready(cl) ==
            [err |-> cl.err, cache |-> cl.cache, attr |-> cl.attr,
             result |-> IF cl.err # "none" THEN "raise"
                        ELSE Bool(\A ch \in Range(CheckOrder) : db_check_rc(ch, rdb) = 0)]
        running(r) ==
            [err |-> r.err, cache |-> r.cache, attr |-> dsc,
             result |-> IF r.err # "none" THEN "raise" ELSE Bool(r.status = 0)]
    IN CASE name = "wait_for_ssh" ->
                [err |-> "none", result |-> Bool(up), cache |-> c, attr |-> dsc]
         [] name = "wait_for_db" -> db_ready(db_ssh_client(c, dbh, up, rails_ok, y, dsc))
         [] name = "wait_for_evm_service" ->
                running(evm_service_command(c, up, "status", <<>>, status, out, <<>>))

\* wait_for_ssh(), wait_for_db() or wait_for_evm_service() begins
WaitStart(name) ==
    /\ q_last.ret # "pending"
    /\ q_last' = [NoQuery EXCEPT !.op = name, !.ssh = ssh_up, !.ret = "pending"]
    /\ UNCHANGED <<app_vars, c_run>>

\* one poll of the wait: the predicate is evaluated on the machine as it is;
\* q_last.probes: what the predicate gave and whether the target was ready.
\* wait_for_ssh and wait_for_db return None, wait_for_evm_service the result
WaitPoll(rails_ok, status) ==
    LET name == q_last.op
        ready == CASE name = "wait_for_ssh" -> ssh_up
                   [] name = "wait_for_db" ->
                        remote_db.online /\ remote_db.has_database /\ remote_db.has_tables
                   [] name = "wait_for_evm_service" -> status = 0
        polled(p, w) ==
            /\ cache' = p.cache
            /\ db_ssh_client_attr' = p.attr
            /\ q_last' = [q_last EXCEPT
                            !.probes = Append(@, [result |-> p.result, ready |-> ready]),
                            !.err = IF p.result = "raise" THEN p.err ELSE w.err,
                            !.ret = IF w.ret = "pending" THEN "pending"
                                    ELSE IF name = "wait_for_evm_service" THEN w.ret
                                    ELSE "None"]
        poll(p) == polled(p, wait_for_poll(p.result, "False", Len(q_last.probes) + 1))
    IN
    /\ q_last.op \in Waits
    /\ q_last.ret = "pending"
    /\ poll(wait_predicate(name, cache, db_host, ssh_up, rails_ok, yaml, db_ssh_client_attr,
                           remote_db, status, "out1"))
    /\ UNCHANGED <<db_host, ssh_up, yaml, db_made, stale, a_last, remote_db, r_pc, r_evals,
                   r_ret, vmdb, w_last, role_vars>>
    /\ UNCHANGED c_run

Names == 1..MaxNames

\* IPAppliance(address) objects and Appliance(provider_name, vm_name) objects;
\* address of an Appliance is the address its provider gives for the VM
Appliances ==
    [cls : {"IPAppliance"}, address : Names, provider_key : {None}, vmname : {None}]
        \cup [cls : {"Appliance"}, address : Names, provider_key : Names, vmname : Names]

\* isinstance(obj, cls): Appliance is a subclass of IPAppliance
isinstance(obj, cls) == obj.cls = cls \/ (obj.cls = "Appliance" /\ cls = "IPAppliance")

\* IPAppliance.__eq__
IPAppliance_eq(self, other) ==
    isinstance(other, "IPAppliance") /\ self.address = other.address

Appliance_eq_by_address(self, other) == IPAppliance_eq(self, other)

\* Appliance.__eq__
Appliance_eq(self, other) ==
    isinstance(other, self.cls)
        /\ (self.vmname = other.vmname /\ self.provider_key = other.provider_key)

\* IPAppliance.__hash__ and Appliance.__hash__: the hash of the address, of
\* the pair (vmname, _provider_key)
hash_of(self) ==
    IF self.cls = "Appliance" THEN <<"tuple", self.vmname, self.provider_key>>
    ELSE <<"str", self.address>>

\* the __eq__ of the class of self
eq_method(self, other) ==
    IF self.cls = "Appliance" THEN Appliance_eq(self, other) ELSE IPAppliance_eq(self, other)

\* v == w: when the class of w is a proper subclass of the class of v the
\* __eq__ of w is asked first, and its answer (never NotImplemented) stands
equals(v, w) ==
    IF v.cls # w.cls /\ isinstance(w, v.cls) THEN eq_method(w, v) ELSE eq_method(v, w)

\* v == w, w == v and the two hashes are evaluated
Compare(v, w) ==
    /\ q_last' = [NoQuery EXCEPT !.op = "compare",
                                 !.val = [v |-> v, w |-> w, eq |-> equals(v, w),
                                          rev |-> equals(w, v),
                                          hash_v |-> hash_of(v), hash_w |-> hash_of(w)]]
    /\ UNCHANGED <<app_vars, c_run>>

\* hash(v) is evaluated
HashOf(v) ==
    /\ q_last' = [NoQuery EXCEPT !.op = "hash", !.val = [v |-> v, hash_v |-> hash_of(v)]]
    /\ UNCHANGED <<app_vars, c_run>>

\* a read of the property db_ssh_client; a_last.arg: the host the client
\* returned connects to
DbSshClient(rails_ok) ==
    LET served(cl) ==
            /\ cache' = cl.cache
            /\ db_ssh_client_attr' = cl.attr
            /\ a_last' = AppOp("db_ssh_client", cl.host, cl.err, NoRet, {}, -1, "None", <<>>,
                               attr(cache, "db_address"))
    IN
    /\ served(db_ssh_client(cache, db_host, ssh_up, rails_ok, yaml, db_ssh_client_attr))
    /\ UNCHANGED <<db_host, ssh_up, yaml, db_made, stale>>
    /\ UNCHANGED <<remote_db, r_pc, r_evals, r_ret, vmdb, w_last, role_vars>>

\* wait_for_host_address() begins
HostWaitStart ==
    /\ q_last.ret # "pending"
    /\ q_last' = [NoQuery EXCEPT !.op = "wait_for_host_address", !.ssh = ssh_up,
                                 !.ret = "pending"]
    /\ UNCHANGED <<app_vars, c_run>>

\* one poll of "wait_for(func=lambda: getattr(self, 'get_host_address'),
\* fail_condition=None, delay=5, num_sec=120)"; q_last.probes: what the property
\* gave and what the remote configuration named at that moment. The time-out is
\* caught and None is returned; else "return self.get_host_address"
HostWaitPoll(rails_ok) ==
    LET remote == get_host_address(clear_property_cache(cache, {"get_host_address"}),
                                   ssh_up, rails_ok, yaml).val
        polled(h, w) ==
            /\ cache' = h.cache
            /\ q_last' = [q_last EXCEPT
                            !.probes = Append(@, [result |-> h.val, remote |-> remote]),
                            !.ret = IF w.err = "TimedOutError" THEN NoHost ELSE w.ret]
        poll(h) == polled(h, wait_for_poll(h.val, NoHost, Len(q_last.probes) + 1))
    IN
    /\ q_last.op = "wait_for_host_address"
    /\ q_last.ret = "pending"
    /\ poll(get_host_address(cache, ssh_up, rails_ok, yaml))
    /\ UNCHANGED <<db_host, ssh_up, yaml, db_made, stale, a_last, db_ssh_client_attr,
                   remote_db, r_pc, r_evals, r_ret, vmdb, w_last, role_vars>>
    /\ UNCHANGED c_run

\* Appliance.name: Appliance._default_name until rename assigns it
name_of(c) == IF Cached(c, "name") THEN c["name"] ELSE "EVM"

rename_name_first(c, up, rails_ok, rails_ok_write, y, new_name) ==
    LET named(w) == [w EXCEPT !.cache = setattr(w.cache, "name", new_name)]
        write(g) ==
            IF g.err # "none"
            THEN [err |-> g.err, cache |-> setattr(g.cache, "name", new_name), yaml |-> y]
            ELSE named(set_yaml_config(g.cache, up, rails_ok_write, y,
                                       [y EXCEPT !.name = new_name]))
    IN write(get_yaml_config(c, up, rails_ok))

\* Appliance.rename(new_name): the configuration is read, written with the new
\* server name, and then self.name is assigned
rename(c, up, rails_ok, rails_ok_write, y, new_name) ==
    LET named(w) ==
            IF w.err # "none" THEN w
            ELSE [w EXCEPT !.cache = setattr(w.cache, "name", new_name)]
        write(g) ==
            IF g.err # "none" THEN [err |-> g.err, cache |-> g.cache, yaml |-> y]
            ELSE named(set_yaml_config(g.cache, up, rails_ok_write, y,
                                       [y EXCEPT !.name = new_name]))
    IN write(get_yaml_config(c, up, rails_ok))

\* a call of rename; a_last.arg: the new name, a_last.before: self.name when the
\* call began
Rename(new_name, rails_ok, rails_ok_write) ==
    LET renamed(r) ==
            /\ cache' = r.cache
            /\ yaml' = r.yaml
            /\ a_last' = AppOp("rename", new_name, r.err, NoRet, {}, -1, "None", <<>>,
                               name_of(cache))
    IN
    /\ renamed(rename(cache, ssh_up, rails_ok, rails_ok_write, yaml, new_name))
    /\ UNCHANGED <<db_host, ssh_up, db_made, stale>>
    /\ UNCHANGED <<db_ssh_client_attr, remote_db, r_pc, r_evals, r_ret, vmdb, w_last, role_vars>>

\* the provider's power operations as templatize uses them: start_vm and
\* stop_vm begin a transition, wait_vm_running and wait_vm_stopped return when
\* it is over
power_after(op, power) ==
    CASE op = "start_vm" -> "starting"
      [] op = "wait_vm_running" -> "running"
      [] op = "stop_vm" -> "stopping"
      [] op = "wait_vm_stopped" -> "stopped"
      [] OTHER -> power

\* Appliance.start and Appliance.stop
start == <<"start_vm", "wait_vm_running">>

stop == <<"stop_vm", "wait_vm_stopped">>

templatize_plan_no_stop(is_running, seal) ==
    (IF seal
     THEN (IF ~is_running THEN start ELSE <<>>) \o <<"seal_for_templatizing">>
     ELSE IF is_running THEN stop ELSE <<>>)
    \o <<"mark_as_template">>

\* Appliance.templatize(seal): the calls it makes when none of them raises
templatize_plan(is_running, seal) ==
    (IF seal
     THEN (IF ~is_running THEN start ELSE <<>>) \o <<"seal_for_templatizing">> \o stop
     ELSE IF is_running THEN stop ELSE <<>>)
    \o <<"mark_as_template">>

\* the calls of a plan one after the other until one raises: raises names the
\* provider call that fails, seal_for_templatizing fails when it cannot get the
\* SSH client; ops: the calls made, at: the power state each was made in
RECURSIVE run_plan(_, _, _, _, _, _)
run_plan(plan, power, ssh_ok, raises, ops, at) ==
    IF plan = <<>> THEN [ops |-> ops, at |-> at, err |-> "none"]
    ELSE IF Head(plan) = raises \/ (Head(plan) = "seal_for_templatizing" /\ ~ssh_ok)
    THEN [ops |-> Append(ops, Head(plan)), at |-> Append(at, power), err |-> "Exception"]
    ELSE run_plan(Tail(plan), power_after(Head(plan), power), ssh_ok, raises,
                  Append(ops, Head(plan)), Append(at, power))

templatize(is_running, seal, ssh_ok, raises) ==
    run_plan(templatize_plan(is_running, seal), IF is_running THEN "running" ELSE "stopped",
             ssh_ok, raises, <<>>, <<>>)

ProviderCalls == {"start_vm", "wait_vm_running", "stop_vm", "wait_vm_stopped",
                  "mark_as_template"}

\* a call of templatize(seal) on a VM that is running or stopped; q_last.prev:
\* the power state at the call, q_last.cmds and q_last.probes: the calls made
\* and the power state at each
Templatize(is_running, seal, raises) ==
    LET client == ssh_client(cache, ssh_up)
        ended(t) ==
            /\ cache' = IF "seal_for_templatizing" \in Range(t.ops) THEN client.cache
                        ELSE cache
            /\ q_last' = [NoQuery EXCEPT
                            !.op = "templatize",
                            !.arg = IF seal THEN "seal" ELSE "None",
                            !.ssh = ssh_up,
                            !.prev = IF is_running THEN "running" ELSE "stopped",
                            !.err = t.err,
                            !.cmds = t.ops,
                            !.probes = t.at]
    IN
    /\ ended(templatize(is_running, seal, client.err = "none", raises))
    /\ UNCHANGED <<db_host, ssh_up, db_made, stale, yaml, a_last, c_run>>
    /\ UNCHANGED <<db_ssh_client_attr, remote_db, r_pc, r_evals, r_ret, vmdb, w_last, role_vars>>

\* the delay and the default timeout, in seconds, each wait hands to wait_for
wait_call(name) ==
    CASE name = "wait_for_ssh" -> [delay |-> 5, num_sec |-> 600]
      [] name = "wait_for_db" -> [delay |-> 20, num_sec |-> 600]
      [] name = "wait_for_evm_service" -> [delay |-> 10, num_sec |-> 900]

wait_for_late(result, elapsed, delay, num_sec) ==
    IF result = "True" THEN [err |-> "none", ret |-> "True", elapsed |-> elapsed]
    ELSE IF elapsed > num_sec
    THEN [err |-> "TimedOutError", ret |-> "None", elapsed |-> elapsed + delay]
    ELSE [err |-> "none", ret |-> "pending", elapsed |-> elapsed + delay]

\* wait_for after a call of the predicate at the time elapsed: the result is
\* returned when it is truthy; else the wait sleeps for delay and raises once
\* the time elapsed exceeds num_sec
wait_for(result, elapsed, delay, num_sec) ==
    IF result = "True" THEN [err |-> "none", ret |-> "True", elapsed |-> elapsed]
    ELSE IF elapsed + delay > num_sec
    THEN [err |-> "TimedOutError", ret |-> "None", elapsed |-> elapsed + delay]
    ELSE [err |-> "none", ret |-> "pending", elapsed |-> elapsed + delay]

\* one poll of a wait on the clock, for any result of the predicate
WaitTick(result) ==
    LET slept(w) ==
            q_last' = [q_last EXCEPT !.err = w.err, !.ret = w.ret, !.elapsed = w.elapsed]
    IN
    /\ q_last.op \in Waits
    /\ q_last.ret = "pending"
    /\ slept(wait_for(result, q_last.elapsed, wait_call(q_last.op).delay,
                      wait_call(q_last.op).num_sec))
    /\ UNCHANGED <<app_vars, c_run>>

\* a read of server_roles; q_last.val: the mapping returned, the roles active
\* and the storage flag of the configuration at the call, and the value of
\* is_storage_enabled the getter used
ServerRolesGet(rails_ok) ==
    LET got(g) ==
            /\ g.made => db_made < MaxDbObjs
            /\ db_made' = IF g.made THEN db_made + 1 ELSE db_made
            /\ cache' = g.cache
            /\ q_last' = [NoQuery EXCEPT
                            !.op = "server_roles", !.ssh = ssh_up, !.err = g.err,
                            !.val = [roles |-> g.val, active |-> active_roles,
                                     storage |-> yaml.storage,
                                     flag |-> attr(g.cache, "is_storage_enabled")]]
    IN
    /\ got(server_roles(cache, db_host, ssh_up, rails_ok, yaml, db_made + 1, vmdb,
                        active_roles))
    /\ UNCHANGED <<db_host, ssh_up, yaml, stale, a_last, role_vars>>
    /\ UNCHANGED <<db_ssh_client_attr, remote_db, r_pc, r_evals, r_ret, vmdb, w_last>>
    /\ UNCHANGED c_run

(* ------------------------------------------------------------------ *)
(* Specifications                                                      *)
(* ------------------------------------------------------------------ *)
vars == <<stack_vars, app_vars, run_vars>>

Init == StackInit /\ AppIdle /\ RunIdle

\* the stack used directly
Next ==
    \/ \E a \in Apps : Push(a) /\ UNCHANGED <<outer, thread_vars, app_vars, run_vars>>
    \/ Pop /\ UNCHANGED <<outer, thread_vars, app_vars, run_vars>>
    \/ \E o \in BOOLEAN : GetOrCreate(o) /\ UNCHANGED <<outer, thread_vars, app_vars, run_vars>>

Spec == Init /\ [][Next]_vars

\* outer records the stack found by the outermost open scope when it was
\* entered; it follows the stack while no scope is open
TrackOuter ==
    /\ outer' = IF scopes # <<>> THEN outer
                ELSE IF scopes' # <<>> THEN stack
                ELSE stack'
    /\ UNCHANGED <<thread_vars, app_vars, run_vars>>

\* the stack used through scopes only (with blocks and configure)
NextScope ==
    \/ \E a \in Apps : Enter(a) /\ TrackOuter
    \/ \E b \in BOOLEAN, sh \in BOOLEAN : Exit(b, sh) /\ TrackOuter
    \/ \E o \in BOOLEAN : GetOrCreate(o) /\ TrackOuter
    \/ \E a \in Apps, f \in BOOLEAN, l \in BOOLEAN, v \in BOOLEAN :
            ConfigureStart(a, f, l, v) /\ TrackOuter
    \/ \E ok \in BOOLEAN, sh \in BOOLEAN : ConfigureStep(ok, sh) /\ TrackOuter

SpecScope == Init /\ [][NextScope]_vars

\* scopes whose bodies also use the stack directly
BodyPush(a) == scopes # <<>> /\ Push(a)

BodyPop == scopes # <<>> /\ Pop

NextMisuse ==
    \/ \E a \in Apps : BodyPush(a) /\ UNCHANGED <<outer, thread_vars, app_vars, run_vars>>
    \/ BodyPop /\ UNCHANGED <<outer, thread_vars, app_vars, run_vars>>
    \/ \E a \in Apps : Enter(a) /\ UNCHANGED <<outer, thread_vars, app_vars, run_vars>>
    \/ \E b \in BOOLEAN, sh \in BOOLEAN : Exit(b, sh) /\ UNCHANGED <<outer, thread_vars, app_vars, run_vars>>

SpecMisuse == Init /\ [][NextMisuse]_vars

\* the database handle and the operations that change the database address
NextDb ==
    \/ RemoteSsh /\ UNCHANGED <<stack_vars, run_vars>>
    \/ \E r \in BOOLEAN : GetDb(r) /\ UNCHANGED <<stack_vars, run_vars>>
    \/ \E c \in BOOLEAN, k \in BOOLEAN, x \in BOOLEAN, st \in {0, 1}, o \in Outputs :
            EnableInternalDb(c, k, x, st, o) /\ UNCHANGED <<stack_vars, run_vars>>
    \/ \E h \in ExtHosts, c \in BOOLEAN, x \in BOOLEAN, st \in {0, 1}, o \in Outputs :
            EnableExternalDb(h, c, x, st, o) /\ UNCHANGED <<stack_vars, run_vars>>

InitApp == StackIdle /\ AppInit /\ RunIdle

SpecDb == InitApp /\ [][NextDb]_vars

\* reads of is_db_ready while the remote machine changes
NextDbReady ==
    \/ RemoteSsh /\ UNCHANGED <<stack_vars, run_vars>>
    \/ \E n \in RemoteDbStates : RemoteDb(n) /\ UNCHANGED <<stack_vars, run_vars>>
    \/ IsDbReadyStart /\ UNCHANGED <<stack_vars, run_vars>>
    \/ \E r \in BOOLEAN : IsDbReadyCheck(r) /\ UNCHANGED <<stack_vars, run_vars>>

SpecDbReady == InitApp /\ [][NextDbReady]_vars

\* calls of is_web_ui_running
NextWebUi ==
    \E u \in Unsures, o \in [1..num_of_tries -> ProbeOutcomes] :
        IsWebUiRunning(u, o) /\ UNCHANGED <<stack_vars, run_vars>>

InitIdle == StackIdle /\ AppIdle /\ RunIdle

SpecWebUi == InitIdle /\ [][NextWebUi]_vars

\* the cached properties read between writes of the configuration
NextConfig ==
    \/ RemoteSsh /\ UNCHANGED <<stack_vars, run_vars>>
    \/ \E nm \in ConfigProperties, r \in BOOLEAN : GetProperty(nm, r) /\ UNCHANGED <<stack_vars, run_vars>>
    \/ \E d \in YamlEdits(yaml), r \in BOOLEAN : SetYamlConfig(d, r) /\ UNCHANGED <<stack_vars, run_vars>>

SpecConfig == InitApp /\ [][NextConfig]_vars

\* the server_roles setter while the remote server follows its configuration
NextRoles ==
    \/ RemoteSsh /\ UNCHANGED <<stack_vars, run_vars>>
    \/ RemoteApplyRoles /\ UNCHANGED <<stack_vars, run_vars>>
    \/ \E d \in {[yaml EXCEPT !.storage = b] : b \in BOOLEAN}, r \in BOOLEAN :
            SetYamlConfig(d, r) /\ UNCHANGED <<stack_vars, run_vars>>
    \/ \E m \in RoleRequests, r \in BOOLEAN, w \in BOOLEAN :
            ServerRolesSet(m, r, w) /\ UNCHANGED <<stack_vars, run_vars>>
    \/ \E r \in BOOLEAN : ServerRolesPoll(r) /\ UNCHANGED <<stack_vars, run_vars>>

SpecRoles == InitIdle /\ [][NextRoles]_vars

\* the identity read again and again between invalidations
NextCache ==
    \/ RemoteSsh /\ UNCHANGED <<stack_vars, run_vars>>
    \/ \E w \in {"server_id", "server_region", "server_name", "server_zone_id"},
          r \in BOOLEAN : ServerIdentity(w, r) /\ UNCHANGED stack_vars
    \/ ServerDetailsChanged /\ UNCHANGED stack_vars

InitCache ==
    StackIdle /\ AppFresh /\ vmdb \in {Vmdb1, Vmdb2, [Vmdb1 EXCEPT !.tables = FALSE]} /\ RunIdle

SpecCache == InitCache /\ [][NextCache]_vars

\* the clock fixed and the packages updated on a machine in any state
NextUpkeep ==
    \/ RemoteSsh /\ UNCHANGED <<stack_vars, run_vars>>
    \/ \E i \in BOOLEAN, e \in BOOLEAN, sv \in BOOLEAN, sm \in BOOLEAN, st \in Statuses,
          tr \in {0, 1} : FixNtpClock(i, e, sv, sm, st, tr) /\ UNCHANGED stack_vars
    \/ \E cl \in BOOLEAN, t \in BOOLEAN, rc \in {0, 1}, rb \in BOOLEAN :
            UpdateRhel(cl, t, rc, rb) /\ UNCHANGED stack_vars

SpecUpkeep == InitIdle /\ [][NextUpkeep]_vars

\* the waits while the remote machine changes
NextWaits ==
    \/ RemoteSsh /\ UNCHANGED <<stack_vars, run_vars>>
    \/ \E n \in RemoteDbStates : RemoteDb(n) /\ UNCHANGED <<stack_vars, run_vars>>
    \/ \E w \in Waits : WaitStart(w) /\ UNCHANGED stack_vars
    \/ \E r \in BOOLEAN, st \in Statuses : WaitPoll(r, st) /\ UNCHANGED stack_vars

SpecWaits == InitIdle /\ [][NextWaits]_vars

\* the database-side command channel is read between changes of the database address
NextDbChannel ==
    \/ \E c \in BOOLEAN, k \in BOOLEAN, x \in BOOLEAN, st \in {0, 1}, o \in Outputs :
            EnableInternalDb(c, k, x, st, o) /\ UNCHANGED <<stack_vars, run_vars>>
    \/ \E h \in ExtHosts, c \in BOOLEAN, x \in BOOLEAN, st \in {0, 1}, o \in Outputs :
            EnableExternalDb(h, c, x, st, o) /\ UNCHANGED <<stack_vars, run_vars>>
    \/ \E r \in BOOLEAN : DbSshClient(r) /\ UNCHANGED <<stack_vars, run_vars>>

SpecDbChannel == InitApp /\ [][NextDbChannel]_vars

\* the properties cached from the database are read between changes of the
\* database address
NextDbCaches ==
    \/ \E c \in BOOLEAN, k \in BOOLEAN, x \in BOOLEAN, st \in {0, 1}, o \in Outputs :
            EnableInternalDb(c, k, x, st, o) /\ UNCHANGED <<stack_vars, run_vars>>
    \/ \E h \in ExtHosts, c \in BOOLEAN, x \in BOOLEAN, st \in {0, 1}, o \in Outputs :
            EnableExternalDb(h, c, x, st, o) /\ UNCHANGED <<stack_vars, run_vars>>
    \/ \E nm \in {"configuration_details", "zone_description"}, r \in BOOLEAN :
            GetProperty(nm, r) /\ UNCHANGED <<stack_vars, run_vars>>
    \/ \E r \in BOOLEAN : ServerRolesGet(r) /\ UNCHANGED stack_vars

SpecDbCaches == InitApp /\ [][NextDbCaches]_vars

\* wait_for_host_address while the appliance comes up
NextHostWait ==
    \/ RemoteSsh /\ UNCHANGED <<stack_vars, run_vars>>
    \/ HostWaitStart /\ UNCHANGED stack_vars
    \/ \E r \in BOOLEAN : HostWaitPoll(r) /\ UNCHANGED stack_vars

SpecHostWait == InitApp /\ [][NextHostWait]_vars

\* the appliance is renamed again and again while SSH comes and goes
NextRename ==
    \/ RemoteSsh /\ UNCHANGED <<stack_vars, run_vars>>
    \/ \E n \in {"EVM", "appl-a", "appl-b"}, r \in BOOLEAN, w \in BOOLEAN :
            Rename(n, r, w) /\ UNCHANGED <<stack_vars, run_vars>>

SpecRename == InitApp /\ [][NextRename]_vars

\* the VM of the appliance is made a template, sealed or not, from either power
\* state, while SSH comes and goes and provider calls fail
NextTemplatize ==
    \/ RemoteSsh /\ UNCHANGED <<stack_vars, run_vars>>
    \/ \E r \in BOOLEAN, s \in BOOLEAN, x \in ProviderCalls \cup {"none"} :
            Templatize(r, s, x) /\ UNCHANGED stack_vars

SpecTemplatize == InitApp /\ [][NextTemplatize]_vars

\* appliances are compared and hashed
NextEquality ==
    \/ \E v \in Appliances, w \in Appliances : Compare(v, w) /\ UNCHANGED stack_vars
    \/ \E v \in Appliances : HashOf(v) /\ UNCHANGED stack_vars

SpecEquality == InitIdle /\ [][NextEquality]_vars

\* two threads of one process use the stack, in any interleaving
NextThreads ==
    \/ \E t \in Threads, a \in Apps :
            ThreadPush(t, a) /\ UNCHANGED <<outer, app_vars, run_vars>>
    \/ \E t \in Threads : ThreadPop(t) /\ UNCHANGED <<outer, app_vars, run_vars>>

SpecThreads == Init /\ [][NextThreads]_vars

\* the waits on the clock; a wait that began goes on polling
NextClock ==
    \/ \E w \in Waits : WaitStart(w) /\ UNCHANGED stack_vars
    \/ \E r \in {"True", "False"} : WaitTick(r) /\ UNCHANGED stack_vars

SpecClock ==
    /\ InitIdle
    /\ [][NextClock]_vars
    /\ WF_vars(\E r \in {"True", "False"} : WaitTick(r) /\ UNCHANGED stack_vars)

\* the server_roles mapping read while the configuration and the roles change
NextRolesView ==
    \/ RemoteSsh /\ UNCHANGED <<stack_vars, run_vars>>
    \/ RemoteApplyRoles /\ UNCHANGED <<stack_vars, run_vars>>
    \/ \E b \in BOOLEAN, ro \in SUBSET {"automate", "storage_inventory"}, r \in BOOLEAN :
            SetYamlConfig([yaml EXCEPT !.storage = b, !.role = ro], r)
                /\ UNCHANGED <<stack_vars, run_vars>>
    \/ \E r \in BOOLEAN : ServerRolesGet(r) /\ UNCHANGED stack_vars

SpecRolesView == InitIdle /\ [][NextRolesView]_vars

(* ------------------------------------------------------------------ *)
(* Properties                                                          *)
(* ------------------------------------------------------------------ *)
\* runs of configure, of IPAppliance and with keyword arguments
NextConfigure ==
    \/ RemoteSsh /\ UNCHANGED <<stack_vars, run_vars>>
    \/ \E v \in Versions, f \in BOOLEAN, l \in BOOLEAN :
            RunConfigure(1, v, f, l) /\ UNCHANGED <<outer, thread_vars>>
    \/ \E ok \in BOOLEAN : RunStep(ok, FALSE) /\ UNCHANGED <<outer, thread_vars>>
    \/ \E c \in BOOLEAN, k \in BOOLEAN, st \in {0, 1}, w \in DbWaits :
            RunSetupDatabase(c, k, st, "out1", w, FALSE) /\ UNCHANGED <<outer, thread_vars>>
    \/ \E kw \in Kwargs : RunCustom(1, kw)
    \/ \E ok \in BOOLEAN : CustomStep(ok, FALSE)
    \/ \E c \in BOOLEAN, k \in BOOLEAN, st \in {0, 1} :
            CustomEnableDb(c, k, st, "out1", FALSE)

SpecConfigure == InitIdle /\ [][NextConfigure]_vars

\* the service commands
NextService ==
    \/ RemoteSsh /\ UNCHANGED <<stack_vars, run_vars>>
    \/ \E cmd \in {"stop", "start"}, st \in Statuses, o \in Outputs :
            EvmService(cmd, st, o) /\ UNCHANGED stack_vars
    \/ \E rude \in BOOLEAN, st \in Statuses, o \in Outputs :
            RestartEvmService(rude, st, o) /\ UNCHANGED stack_vars
    \/ \E p \in {"configuration_details", "zone_description"}, r \in BOOLEAN :
            GetProperty(p, r) /\ UNCHANGED <<stack_vars, run_vars>>

SpecService == InitIdle /\ [][NextService]_vars

\* the probes read while the remote machine changes
NextProbes ==
    \/ RemoteSsh /\ UNCHANGED <<stack_vars, run_vars>>
    \/ \E n \in RemoteDbStates : RemoteDb(n) /\ UNCHANGED <<stack_vars, run_vars>>
    \/ IsSshRunning /\ UNCHANGED stack_vars
    \/ \E ch \in Range(CheckOrder), r \in BOOLEAN : DbProbe(ch, r) /\ UNCHANGED stack_vars
    \/ \E st \in Statuses, o \in Outputs : IsEvmServiceRunning(st, o) /\ UNCHANGED stack_vars
    \/ \E o \in ProbeOutcomes : WebUiProbe(o) /\ UNCHANGED stack_vars

SpecProbes == InitIdle /\ [][NextProbes]_vars

\* waits for the web UI
NextWebWait ==
    \/ \E u \in Unsures, o \in [1..num_of_tries -> {"200", "503", "Timeout"}] :
            IsWebUiRunning(u, o) /\ UNCHANGED <<stack_vars, run_vars>>
    \/ \E b \in BOOLEAN : WaitForWebUi(b) /\ UNCHANGED stack_vars
    \/ \E o \in ProbeOutcomes : WaitForWebUiPoll(o) /\ UNCHANGED stack_vars

SpecWebWait == InitIdle /\ [][NextWebWait]_vars

\* the identity read from a database
NextIdentity ==
    \/ RemoteSsh /\ UNCHANGED <<stack_vars, run_vars>>
    \/ \E w \in {"server_id", "server_region", "server_name"}, r \in BOOLEAN :
            ServerIdentity(w, r) /\ UNCHANGED stack_vars

InitIdentity == StackIdle /\ AppFresh /\ vmdb \in Vmdbs /\ RunIdle

SpecIdentity == InitIdentity /\ [][NextIdentity]_vars

\* C1: a pop() that returns removes and returns exactly the appliance most
\* recently pushed and not yet popped (the last element of the stack it
\* found), and afterwards the stack, and so its top, is what it was before that
\* appliance was pushed.
C1_PopReturnsLastPushed ==
    (s_last.op = "pop" /\ s_last.err = "none") =>
        /\ s_last.before # <<>>
        /\ s_last.ret = Last(s_last.before)
        /\ stack = Front(s_last.before)
        /\ top(stack) = top(Front(s_last.before))

\* push(1); push(2); pop() returned 2 and 1 is the top again
C1_Witness ==
    /\ s_last.op = "pop"
    /\ s_last.before = <<1, 2>>
    /\ s_last.ret = 2
    /\ top(stack) = 1

\* C2: with the stack used through scopes only, every open scope's appliance
\* is on the stack in nesting order above the content found by the outermost
\* scope, whether bodies returned or raised; so once all scopes (the one of
\* configure included) are left the stack is what it was before the outermost
\* one was entered, and every __exit__ popped its own appliance.
C2_ScopesRestoreStack ==
    /\ stack = outer \o scopes
    /\ s_last.op \in {"exit", "configure_exit"} =>
        /\ s_last.ret = s_last.app
        /\ s_last.err \in {"none", "BodyError"}

\* configure raised inside an open scope, over a stack that was not empty
C2_Witness ==
    /\ s_last.op = "configure_exit"
    /\ s_last.err = "BodyError"
    /\ Len(scopes) = 1
    /\ outer # <<>>
    /\ stack = outer \o scopes

\* C3: when the appliance popped on leaving a scope is not the appliance whose
\* scope is left, __exit__ raises the consistency error (AssertionError).
C3_MismatchRaises ==
    (s_last.op = "exit" /\ s_last.ret # None /\ s_last.ret # s_last.app) =>
        s_last.err = "AssertionError"

\* the popped object is another object for the same address as self
C3_Witness ==
    /\ s_last.op = "exit"
    /\ s_last.ret # None
    /\ s_last.ret # s_last.app
    /\ Address(s_last.ret) = Address(s_last.app)
    /\ s_last.err = "AssertionError"

\* C4: a read of is_db_ready evaluates db_online, db_has_database and
\* db_has_tables in this order and nothing after a check that was false: every
\* check but the last evaluated one was true, and the read gives True only
\* when all three were evaluated and true.
C4_ShortCircuit ==
    /\ Len(r_evals) <= 3
    /\ \A i \in 1..Len(r_evals) : r_evals[i].check = CheckOrder[i]
    /\ \A i \in 1..(Len(r_evals) - 1) : r_evals[i].result = "True"
    /\ r_ret = "True" => Len(r_evals) = 3 /\ r_evals[3].result = "True"
    /\ r_ret = "False" => r_evals[Len(r_evals)].result = "False"

\* db_online was false and nothing else was evaluated, though the database and
\* its tables exist
C4_Witness ==
    /\ r_ret = "False"
    /\ Len(r_evals) = 1
    /\ r_evals[1].check = "db_online"
    /\ remote_db.has_database
    /\ remote_db.has_tables

\* C6: a database handle that was cached when enable_internal_db or
\* enable_external_db was called is never cached or returned afterwards: right
\* after the call no handle is cached, and every read of db gives a handle for
\* the current db_address.
C6_StaleDbNeverServed ==
    /\ cached_oids(cache) \cap stale = {}
    /\ a_last.op \in {"enable_internal_db", "enable_external_db"} => ~Cached(cache, "db")
    /\ (a_last.op = "db" /\ a_last.err = "none") =>
        /\ a_last.oid \notin stale
        /\ a_last.arg = attr(cache, "db_address")

\* a handle was cached, the database address was changed to an external host
\* and the next read of db constructed a handle for that host
C6_Witness ==
    /\ a_last.op = "db"
    /\ a_last.made
    /\ stale # {}
    /\ a_last.arg \in ExtHosts
    /\ a_last.before = a_last.arg

\* C9: when the remote enable command of enable_external_db gives a non-zero
\* status, the call raises ApplianceException and the exception's message
\* includes the captured output.
C9_ExternalFailureCarriesOutput ==
    (a_last.op = "enable_external_db" /\ a_last.status > 0) =>
        /\ a_last.err = "ApplianceException"
        /\ a_last.out \in a_last.msg

\* C10: when enable_external_db raised because the remote command gave a
\* non-zero status, db_address is what it was set to before the call.
C10_FailedEnableKeepsAddress ==
    (a_last.op = "enable_external_db" /\ a_last.err = "ApplianceException"
        /\ a_last.before # "unset") =>
        attr(cache, "db_address") = a_last.before

\* the probes of the last call that succeeded
w_ok == {i \in 1..Len(w_last.probes) : w_last.probes[i] = "200"}

C7_WriteClearsConfigCaches ==
    (a_last.op = "set_yaml_config" /\ a_last.err = "none")
        => DOMAIN cache \cap ConfigProperties = {}

\* the step of the setter that found the requested mapping equal to the visible one
matching_set == ro_last.op = "set" /\ ro_last.err = "none" /\ ro_last.same

\* C8 (as claimed): assigning server_roles the mapping that is visible reads no
\* configuration, writes none and starts no wait.
C8_MatchingSetIsNoOpAsClaimed ==
    matching_set => (ro_last.calls = <<>> /\ ~role_wait.active)

\* C8 (amended): assigning server_roles the mapping that is visible writes no
\* configuration and starts no wait; the configuration is read at most once, and
\* only when is_storage_enabled was not cached when the assignment began.
C8_MatchingSetIsNoOp ==
    matching_set =>
        /\ "set_yaml_config" \notin Range(ro_last.calls)
        /\ ~role_wait.active
        /\ ro_last.calls \in {<<>>, <<"get_yaml_config">>}
        /\ ro_last.storage_cached => ro_last.calls = <<>>

\* a mapping with an active role was assigned while it was the visible one
C8_Witness ==
    /\ matching_set
    /\ ro_last.want["automate"]
    /\ ro_last.storage_cached
    /\ ~role_wait.active

\* the steps a run of configure has made
steps == Range(c_run.log)

\* C11 (as claimed): when the enable_internal_db run by setup_database returns a
\* non-zero status, configure goes on to no further step and ends with an
\* ApplianceException.
C11_ConfigureRaisesOnDbFailure ==
    (c_run.kind = "configure" /\ c_run.db.status > 0)
        => /\ Last(c_run.log) = "enable_internal_db"
           /\ c_run.done => c_run.err = "ApplianceException"

ConfigureOrder ==
    <<"wait_for_ssh", "deploy_merkyl", "fix_ntp_clock", "enable_internal_db",
      "wait_for_db_ready", "wait_for_evm_service", "loosen_pgssl",
      "configure_vm_console_cert", "restart_evm_service", "wait_for_web_ui">>

rank(step) == CHOOSE i \in 1..Len(ConfigureOrder) : ConfigureOrder[i] = step

\* C12: in every run of IPAppliance.configure the steps are made in the order
\* wait for SSH, (clock fix), database setup ending with the wait for
\* is_db_ready, wait for the EVM service, (fixups, restart), wait for the web
\* UI: the wait for SSH is first, nothing follows the wait for the web UI, and
\* no later step is made without the earlier waits.
C12_ConfigureOrder ==
    c_run.kind = "configure" =>
        /\ \A i, j \in DOMAIN c_run.log : i < j => rank(c_run.log[i]) < rank(c_run.log[j])
        /\ c_run.log # <<>> => c_run.log[1] = "wait_for_ssh"
        /\ "wait_for_evm_service" \in steps => "wait_for_db_ready" \in steps
        /\ steps \cap {"loosen_pgssl", "configure_vm_console_cert", "restart_evm_service",
                        "wait_for_web_ui"} # {} => "wait_for_evm_service" \in steps
        /\ (c_run.done /\ c_run.err = "none") => Last(c_run.log) = "wait_for_web_ui"

\* a run with every optional step ended normally
C12_Witness ==
    /\ c_run.kind = "configure"
    /\ c_run.done
    /\ c_run.err = "none"
    /\ c_run.log = ConfigureOrder

fixups == {i \in DOMAIN c_run.log :
            c_run.log[i] \in {"loosen_pgssl", "configure_vm_console_cert"}}

restarts == {i \in DOMAIN c_run.log : c_run.log[i] = "restart_evm_service"}

\* C13: in a run of IPAppliance.configure the EVM service is restarted only
\* after a fixup ran, and a run that reaches the wait for the web UI has
\* restarted it exactly when a fixup ran (loosen_pgssl requested, or the
\* certificate installed for version >= 5.8), right before that wait.
C13_RestartIffFixups ==
    c_run.kind = "configure" =>
        /\ \A r \in restarts : fixups # {} /\ \A f \in fixups : f < r
        /\ "wait_for_web_ui" \in steps =>
              /\ "loosen_pgssl" \in steps <=> c_run.kw.loosen_pgssl
              /\ "configure_vm_console_cert" \in steps <=> version_ge_58(c_run.version)
              /\ restarts # {} <=> fixups # {}
              /\ \A r \in restarts : c_run.log[r + 1] = "wait_for_web_ui"
              /\ Cardinality(restarts) <= 1

\* a run whose only fixup was the certificate restarted the service
C13_Witness ==
    /\ c_run.kind = "configure"
    /\ c_run.done
    /\ c_run.err = "none"
    /\ ~c_run.kw.loosen_pgssl
    /\ restarts # {}

\* C14 (as claimed): every run of configure, also one with keyword arguments,
\* waits for SSH first and waits for the database and for the EVM service
\* before it waits for the web UI.
C14_EveryConfigureFullSequence ==
    c_run.kind # "none" =>
        /\ c_run.log # <<>> => c_run.log[1] = "wait_for_ssh"
        /\ "wait_for_web_ui" \in steps =>
              {"wait_for_db_ready", "wait_for_evm_service"} \subseteq steps

\* the attempts to enable the database among the remote operations of a_last
attempts == {i \in DOMAIN a_last.cmds :
                a_last.cmds[i] \in {"ruby", "cli --internal --fetch-key",
                                    "cli --internal --force-key"}}

\* C15: enable_internal_db leaves db_address set to the appliance's own address
\* and no db handle cached, makes exactly one attempt when SSH is available (the
\* CLI, or the script without it), and when the command returned, hands its
\* (status, output) back without raising, whatever the status.
C15_InternalDbOneAttempt ==
    a_last.op = "enable_internal_db" =>
        /\ attr(cache, "db_address") = ADDR
        /\ ~Cached(cache, "db")
        /\ Cardinality(attempts) = (IF a_last.err = "Exception" THEN 0 ELSE 1)
        /\ a_last.err = "none" => a_last.ret = [status |-> a_last.status, out |-> a_last.out]
        /\ a_last.status > 0 => a_last.err = "none" /\ a_last.ret.status = a_last.status

\* a failing script run was handed back to the caller
C15_Witness ==
    /\ a_last.op = "enable_internal_db"
    /\ a_last.before = "dbhost1"
    /\ a_last.ret.status = 1
    /\ a_last.cmds = <<"put_file", "ruby", "rm">>

\* C16 (as claimed): whenever the generated script was executed by
\* enable_internal_db or enable_external_db it was deleted afterwards, however
\* the execution ended.
C16_ScriptAlwaysDeleted ==
    (a_last.op \in {"enable_internal_db", "enable_external_db"}
        /\ "ruby" \in Range(a_last.cmds))
        => Last(a_last.cmds) = "rm"

\* the systemctl commands against evmserverd that the last service operation ran
service_runs ==
    {i \in DOMAIN q_last.cmds :
        q_last.cmds[i] \in {systemctl("start"), systemctl("stop"), systemctl("restart")}}

\* C17: start_evm_service, stop_evm_service and restart_evm_service run the
\* systemctl command against evmserverd at most once; when it exits with a
\* status other than 0 they raise ApplianceException with the captured output in
\* its message, and they return normally only when it ran and exited with 0.
C17_ServiceCommandRaisesOnStatus ==
    q_last.op \in {"start", "stop", "restart"} =>
        /\ Cardinality(service_runs) <= 1
        /\ (service_runs # {} /\ q_last.status # 0) =>
                (q_last.err = "ApplianceException" /\ q_last.out \in q_last.msg)
        /\ q_last.err = "none" => (service_runs # {} /\ q_last.status = 0)

C17_Witness ==
    /\ q_last.op = "restart"
    /\ q_last.arg = "rude"
    /\ q_last.status = 3
    /\ q_last.err = "ApplianceException"
    /\ q_last.out \in q_last.msg

\* the readiness probes
ProbeOps ==
    {"is_ssh_running", "db_online", "db_has_database", "db_has_tables",
     "is_evm_service_running", "check_appliance_ui"}

\* C18: a readiness probe whose target is not ready (SSH not reachable, the
\* probe command exiting non-zero, the web UI not answering) does not raise: it
\* returns True or False.
C18_ProbesNeverRaise ==
    (q_last.op \in ProbeOps /\ q_last.arg # "ValueError") =>
        (q_last.err = "none" /\ q_last.ret \in {"True", "False"})

\* the probes of the wait that agree with what it returned
agreeing == {i \in DOMAIN q_last.probes :
                check_appliance_ui_wait_fn(q_last.probes[i]) = q_last.ret}

\* C19: wait_for_web_ui returns that the web UI is running, or is stopped,
\* only after at least three probes that said so.
C19_WaitIsTripleSampled ==
    (q_last.op = "wait_for_web_ui" /\ q_last.ret \in {"True", "False"}) =>
        Cardinality(agreeing) >= num_of_tries

IdentityOps == {"server_id", "server_region", "server_name"}

\* a server row of region 0 with the appliance's address or GUID
matches(srv) ==
    /\ srv.id \in 0..(SEQ_FACT - 1)
    /\ (srv.ipaddress = ADDR \/ srv.guid = GUID)

matching == {i \in DOMAIN vmdb.servers : matches(vmdb.servers[i])}

\* what the last identity call has to return for the server row srv of region 0
of_row(srv) ==
    CASE q_last.op = "server_id" -> Num(srv.id)
      [] q_last.op = "server_region" -> Num(0)
      [] q_last.op = "server_name" -> Str(srv.name)

no_details == ~vmdb.tables \/ vmdb.regions = <<>>

Orderings ==
    {p \in [DOMAIN vmdb.servers -> DOMAIN vmdb.servers] :
        \A i, j \in DOMAIN vmdb.servers : p[i] = p[j] => i = j}

\* the database with its server rows in the ordering p
reordered(p) == [vmdb EXCEPT !.servers = [i \in DOMAIN vmdb.servers |-> vmdb.servers[p[i]]]]

\* C21: the server whose values an identity call returns has an id in the
\* range of region 0 and matches the appliance by address or GUID, and the
\* call returns the same for every ordering of the server rows.
C21_OrderIndependent ==
    (q_last.op \in IdentityOps /\ q_last.err = "none" /\ ~no_details) =>
        /\ q_last.val # NoVal => \E i \in matching : q_last.val = of_row(vmdb.servers[i])
        /\ \A p \in Orderings :
              details_item(q_last.op, details_value(reordered(p), ADDR, GUID)) = q_last.val

\* the keys starting with 'storage' and the key 'vmdb_storage_bridge'
storage_keys == {k \in AllRoleNames : startswith_storage(k) \/ k = "vmdb_storage_bridge"}

\* a read of server_roles that returned
roles_read == q_last.op = "server_roles" /\ q_last.err = "none"

identity_query ==
    /\ q_last.op \in {"server_id", "server_region", "server_name", "server_zone_id"}
    /\ q_last.queried

\* C23 (as claimed): between two invalidations the reads of the server identity
\* query the database at most once.
C23_OneQueryAsClaimed == identity_query => q_last.prev = "fresh"

\* C23: between two invalidations the reads of the server identity query the
\* database at most once after a read has returned: the value a read returned,
\* None included, is remembered, and only a computation that raised is repeated.
C23_OneQuery ==
    /\ identity_query => q_last.prev # "computed"
    /\ q_last.hist = "computed" => Cached(cache, "configuration_details")

\* a second read after one that returned, answered without a query
C23_Witness ==
    /\ q_last.op = "server_name"
    /\ q_last.prev = "computed"
    /\ q_last.err = "none"
    /\ ~q_last.queried
    /\ cache["configuration_details"].name = "EVM"

\* a call of fix_ntp_clock that compared the remote file with the prepared one
ntp_compared == q_last.op = "fix_ntp_clock" /\ "cat /etc/chrony.conf" \in Range(q_last.cmds)

ntp_restarted == "systemctl restart chronyd" \in Range(q_last.cmds)

ntp_overwritten == "echo > /etc/chrony.conf" \in Range(q_last.cmds)

\* C24 (as claimed): fix_ntp_clock restarts chronyd only if the remote file
\* differed from the prepared one and was overwritten.
C24_RestartOnlyOnChangeAsClaimed ==
    (ntp_compared /\ ntp_restarted) => (~q_last.val.same /\ ntp_overwritten)

\* C24: fix_ntp_clock restarts chronyd exactly if the remote file differed from
\* the prepared one and was overwritten, or the file was equal and 'systemctl
\* status chronyd' exited non-zero; with an equal file and a running daemon
\* nothing is written and no restart is issued.
C24_RestartOnlyOnChange ==
    ntp_compared =>
        /\ ntp_overwritten <=> ~q_last.val.same
        /\ ntp_restarted <=> (ntp_overwritten \/ q_last.val.status_rc # 0)

\* the file is the prepared one, the daemon is not running: it is restarted
C24_Witness ==
    /\ ntp_compared
    /\ q_last.val.same
    /\ q_last.val.status_rc = 3
    /\ ntp_restarted
    /\ ~ntp_overwritten

\* C25: when capturing the diagnostics fails on the exit of a scope, the
\* failure is logged, the appliance is popped from the stack, and what leaves
\* the scope is the exception of the body, or nothing when the body returned.
C25_CaptureFailureOnlyLogged ==
    [][\A b \in BOOLEAN :
          Exit(b, TRUE) =>
              /\ s_last'.logged
              /\ stack' = Front(stack)
              /\ s_last'.ret = Last(stack)
              /\ s_last'.err = IF b THEN "BodyError" ELSE "none"]_vars

\* the body raised, the capture failed: the body's exception leaves the scope
C25_Witness ==
    /\ s_last.op = "exit"
    /\ s_last.logged
    /\ s_last.err = "BodyError"

\* the runs of 'yum update' of the last update_rhel
updates == {i \in DOMAIN q_last.cmds : q_last.cmds[i] = "yum update -y --nogpgcheck"}

rebooted == "reboot" \in Range(q_last.cmds)

\* C26: update_rhel runs the update once; on a socket timeout it raises
\* KeyboardInterrupt and does not reboot, on a non-zero status it raises
\* ApplianceException, and it reboots exactly after a zero status with the
\* reboot requested.
C26_UpdateTimeoutAborts ==
    (q_last.op = "update_rhel" /\ updates # {}) =>
        /\ Cardinality(updates) = 1
        /\ q_last.val.timed_out => (q_last.err = "KeyboardInterrupt" /\ ~rebooted)
        /\ (~q_last.val.timed_out /\ q_last.val.rc # 0) => q_last.err = "ApplianceException"
        /\ rebooted <=> (~q_last.val.timed_out /\ q_last.val.rc = 0 /\ q_last.val.reboot)

\* the update timed out with the reboot requested
C26_Witness ==
    /\ q_last.op = "update_rhel"
    /\ q_last.val.timed_out
    /\ q_last.val.reboot
    /\ q_last.err = "KeyboardInterrupt"
    /\ ~rebooted

\* a bounded wait that returned
wait_returned == q_last.op \in Waits /\ q_last.ret # "pending" /\ q_last.err = "none"

\* C27: wait_for_ssh, wait_for_db and wait_for_evm_service return only after a
\* poll in which the predicate was true with the target ready, and that poll is
\* the first in which the predicate was true; while they go on no poll was true.
C27_WaitReturnsOnFirstTrue ==
    /\ wait_returned =>
            /\ q_last.probes # <<>>
            /\ Last(q_last.probes).result = "True"
            /\ Last(q_last.probes).ready
            /\ \A i \in 1..(Len(q_last.probes) - 1) : q_last.probes[i].result = "False"
    /\ (q_last.op \in Waits /\ q_last.ret = "pending") =>
            \A i \in DOMAIN q_last.probes : q_last.probes[i].result = "False"

\* the database became ready between the polls of wait_for_db
C27_Witness ==
    /\ wait_returned
    /\ q_last.op = "wait_for_db"
    /\ Len(q_last.probes) = 2
    /\ ~q_last.probes[1].ready
    /\ q_last.probes[2].ready

waiting == q_last.op \in Waits /\ q_last.ret = "pending"

C29_StackPerThread ==
    /\ [](\A t \in Threads : top(local(stack, peer_stack, t)) = top(t_log[t]))
    /\ [][\A t \in Threads :
            ThreadPop(t) =>
                /\ s_last'.ret = top(t_log[t])
                /\ \A o \in Threads \ {t} :
                        local(stack', peer_stack', o) = local(stack, peer_stack, o)]_vars

\* a thread popped its own object while the other thread had another object on top
C29_Witness ==
    /\ s_last.op = "pop"
    /\ s_last.ret = 1
    /\ t_log.main = <<2>>
    /\ t_log.peer = <<1>>
    /\ stack = <<2>>
    /\ peer_stack = <<1>>

\* C30: two IPAppliance objects are equal exactly when their addresses are
\* equal, two Appliance objects are equal exactly when their (provider key,
\* VM name) pairs are equal, equal appliances have equal hashes, and v == w
\* gives what w == v gives, also for an IPAppliance and an Appliance.
C30_Equality ==
    q_last.op = "compare" =>
        LET v == q_last.val.v
            w == q_last.val.w
        IN
        /\ (v.cls = "IPAppliance" /\ w.cls = "IPAppliance") =>
                (q_last.val.eq <=> v.address = w.address)
        /\ (v.cls = "Appliance" /\ w.cls = "Appliance") =>
                (q_last.val.eq <=> (v.provider_key = w.provider_key /\ v.vmname = w.vmname))
        /\ q_last.val.eq => q_last.val.hash_v = q_last.val.hash_w
        /\ q_last.val.eq = q_last.val.rev

\* an IPAppliance was compared with an Appliance of the same address
C30_Witness ==
    /\ q_last.op = "compare"
    /\ q_last.val.v.cls = "IPAppliance"
    /\ q_last.val.w.cls = "Appliance"
    /\ q_last.val.v.address = q_last.val.w.address
    /\ ~q_last.val.eq
    /\ ~q_last.val.rev

\* C31: the client a read of db_ssh_client returns connects to the database
\* address of that moment, after any sequence of enable_internal_db and
\* enable_external_db calls.
C31_ChannelTargetsDbAddress ==
    (a_last.op = "db_ssh_client" /\ a_last.err = "none") =>
        a_last.arg = attr(cache, "db_address")

\* the properties whose cached values were computed from the database
db_keyed == {"configuration_details", "zone_description", "evm_id"}

\* C32: when enable_internal_db or enable_external_db has changed the database
\* address and returned success, none of configuration_details,
\* zone_description and evm_id is still cached.
C32_DbChangeInvalidates ==
    [][(/\ a_last' # a_last
        /\ a_last'.op \in {"enable_internal_db", "enable_external_db"}
        /\ a_last'.err = "none"
        /\ a_last'.status = 0
        /\ a_last'.before # a_last'.arg) =>
            \A n \in db_keyed : ~Cached(cache', n)]_vars

\* the setter has ended without an exception
setter_returned ==
    /\ ro_last.op \in {"set", "wait"}
    /\ ro_last.err = "none"
    /\ ~role_wait.active

\* C33: the server_roles setter returns only when the mapping read back equals
\* the requested one; when the wait ends with the timeout error the mapping of
\* its last poll differs from the requested one; the wait begins after exactly
\* one write of the configuration, goes on only within its budget of polls, and
\* no poll writes the configuration.
C33_SetterReturnsOnMatch ==
    /\ [](setter_returned => ro_last.same)
    /\ [](ro_last.err = "TimedOutError" => (ro_last.op = "wait" /\ ~ro_last.same))
    /\ []((role_wait.active /\ ro_last.op = "set") =>
            Cardinality({i \in DOMAIN ro_last.calls : ro_last.calls[i] = "set_yaml_config"}) = 1)
    /\ [](role_wait.active => role_wait.polls < MaxPolls)
    /\ [][(role_wait.active /\ role_wait' # role_wait) =>
            /\ yaml' = yaml
            /\ "set_yaml_config" \notin Range(ro_last'.calls)]_vars

\* a mapping with a storage key was requested while storage is not enabled: the
\* getter suppresses the key and the wait timed out
C33_Witness ==
    /\ ro_last.op = "wait"
    /\ ro_last.err = "TimedOutError"
    /\ "storage_inventory" \in DOMAIN ro_last.want
    /\ Cached(cache, "is_storage_enabled")
    /\ ~cache["is_storage_enabled"]
    /\ ~role_wait.active

\* the polls of an ended wait_for_host_address at which the remote
\* configuration named a host
host_named ==
    {i \in DOMAIN q_last.probes : q_last.probes[i].remote # NoHost}

\* C34: when the remote configuration names a host at some poll of
\* wait_for_host_address, the wait returns the host named at the first such poll.
C34_HostWaitPolls ==
    (/\ q_last.op = "wait_for_host_address"
     /\ q_last.ret # "pending"
     /\ host_named # {}) =>
        q_last.ret = q_last.probes[CHOOSE i \in host_named : \A j \in host_named : i <= j].remote

\* the commands of q_last that name the evmserverd service
evmserverd_cmds ==
    {i \in DOMAIN q_last.cmds :
        q_last.cmds[i] \in {systemctl(c) : c \in {"start", "stop", "restart", "status"}}}

\* C35: restart_evm_service that obtained its client issues, in rude mode, the
\* kill of the processes with the restart of the database and then 'start'
\* against evmserverd, and in normal mode 'restart' alone: one command against
\* evmserverd in either mode, and it is the last one; a call that could not
\* obtain the client issues nothing.
C35_RestartOrder ==
    q_last.op = "restart" =>
        IF q_last.err \notin {"none", "ApplianceException"}
        THEN q_last.cmds = <<>>
        ELSE /\ Cardinality(evmserverd_cmds) = 1
             /\ evmserverd_cmds = {Len(q_last.cmds)}
             /\ q_last.arg = "rude" =>
                    q_last.cmds = <<"killall -9 ruby; systemctl restart postgresql",
                                    systemctl("start")>>
             /\ q_last.arg # "rude" => q_last.cmds = <<systemctl("restart")>>

\* a rude restart whose start command failed
C35_Witness ==
    /\ q_last.op = "restart"
    /\ q_last.arg = "rude"
    /\ q_last.err = "ApplianceException"
    /\ Len(q_last.cmds) = 2
    /\ q_last.cmds[2] = "systemctl start evmserverd"

\* the caches that server_details_changed() clears
details_caches == {"configuration_details", "zone_description"}

\* C36: a set_yaml_config that raises leaves configuration_details and
\* zone_description as they were cached; a set_yaml_config that returns has
\* cleared both.
C36_FailedWriteKeepsCaches ==
    [][(a_last' # a_last /\ a_last'.op = "set_yaml_config") =>
            IF a_last'.err # "none"
            THEN \A n \in details_caches :
                    /\ Cached(cache', n) = Cached(cache, n)
                    /\ Cached(cache, n) => cache'[n] = cache[n]
            ELSE \A n \in details_caches : ~Cached(cache', n)]_vars

\* a write failed on the server while both caches were filled
C36_Witness ==
    /\ a_last.op = "set_yaml_config"
    /\ a_last.err = "Exception"
    /\ Cached(cache, "ssh_client")
    /\ \A n \in details_caches : Cached(cache, n)

got_current == s_last.op = "get_or_create"

\* C38 (as claimed): on a non-empty stack the call returns the top and leaves the
\* stack as it is; on an empty stack with a base URL it pushes one appliance
\* and returns it; without a base URL it raises ValueError and the stack stays
\* empty.
C38_GetOrCreateAsClaimed ==
    got_current =>
        /\ s_last.before # <<>> =>
                (s_last.err = "none" /\ stack = s_last.before /\ s_last.ret = Last(stack))
        /\ (s_last.before = <<>> /\ base_url) =>
                (s_last.err = "none" /\ Len(stack) = 1 /\ stack[1] \in CreatedApps
                    /\ s_last.ret = stack[1])
        /\ (s_last.before = <<>> /\ ~base_url) =>
                (s_last.err = "ValueError" /\ stack = <<>>)

\* C38 (amended): as claimed, except that on an empty stack with a base URL the
\* call either pushes one appliance and returns it or, when the openshift entry
\* is not a dictionary, raises TypeError and leaves the stack empty. A call
\* grows the stack by at most one element and a call that returns returns an
\* appliance.
C38_GetOrCreate ==
    got_current =>
        /\ s_last.before # <<>> =>
                (s_last.err = "none" /\ stack = s_last.before /\ s_last.ret = Last(stack))
        /\ (s_last.before = <<>> /\ base_url) =>
                \/ (s_last.err = "none" /\ Len(stack) = 1 /\ stack[1] \in CreatedApps
                        /\ s_last.ret = stack[1])
                \/ (s_last.err = "TypeError" /\ stack = <<>>)
        /\ (s_last.before = <<>> /\ ~base_url) =>
                (s_last.err = "ValueError" /\ stack = <<>>)
        /\ Len(stack) <= Len(s_last.before) + 1
        /\ s_last.err = "none" => s_last.ret # None

\* the call found more than one appliance on the stack and returned the top
C38_Witness ==
    /\ got_current
    /\ s_last.err = "none"
    /\ Len(s_last.before) = 2
    /\ s_last.before[1] # s_last.before[2]
    /\ s_last.ret = s_last.before[2]

\* C39: rename assigns self.name only after the configuration was written: a
\* rename that raised (in get_yaml_config or in set_yaml_config) leaves
\* self.name as it was, a rename that returned has set it to the new name and
\* the remote configuration names it.
C39_RenameAfterWrite ==
    a_last.op = "rename" =>
        IF a_last.err # "none"
        THEN name_of(cache) = a_last.before
        ELSE name_of(cache) = a_last.arg /\ yaml.name = a_last.arg

\* a rename failed after an earlier one had succeeded: the earlier name stays
C39_Witness ==
    /\ a_last.op = "rename"
    /\ a_last.err # "none"
    /\ a_last.arg = "appl-b"
    /\ a_last.before = "appl-a"
    /\ name_of(cache) = "appl-a"
    /\ yaml.name = "appl-a"

\* C40: templatize marks the VM as a template only when it is stopped: whenever
\* mark_as_template is called the VM is stopped and every start before it was
\* followed by a completed stop; with seal the sealing runs while the VM is
\* running, after a start if the VM was stopped, and the mark is never made
\* without it; without seal nothing is sealed; a call that did not raise ended
\* with the mark.
C40_TemplatizeStopped ==
    q_last.op = "templatize" =>
        LET ops == q_last.cmds
            at == q_last.probes
            n == Len(q_last.cmds)
        IN
        /\ \A i \in 1..n : ops[i] = "mark_as_template" =>
                /\ at[i] = "stopped"
                /\ \A j \in 1..(i - 1) : ops[j] \in {"start_vm", "wait_vm_running"} =>
                        \E k \in (j + 1)..(i - 1) : ops[k] = "wait_vm_stopped"
                /\ q_last.arg = "seal" =>
                        \E j \in 1..(i - 1) : ops[j] = "seal_for_templatizing"
        /\ \A i \in 1..n : ops[i] = "seal_for_templatizing" =>
                /\ q_last.arg = "seal"
                /\ at[i] = "running"
                /\ q_last.prev = "stopped" => (i = 3 /\ ops[1] = "start_vm")
        /\ q_last.err = "none" => (n > 0 /\ ops[n] = "mark_as_template")

\* a stopped VM was started, sealed, stopped again and marked
C40_Witness ==
    /\ q_last.op = "templatize"
    /\ q_last.arg = "seal"
    /\ q_last.prev = "stopped"
    /\ q_last.err = "none"
    /\ q_last.cmds = <<"start_vm", "wait_vm_running", "seal_for_templatizing",
                       "stop_vm", "wait_vm_stopped", "mark_as_template">>
    /\ q_last.probes = <<"stopped", "starting", "running", "running", "stopping", "stopped">>

====
